--------------------------- MODULE MongoLocksProofs ---------------------------
(* Theorems about MongoLocks, for any number of transactions, Stores,        *)
(* documents and slots and any deployment.                                   *)
EXTENDS MongoLocks, FiniteSetTheorems, SequenceTheorems, WellFoundedInduction, TLAPS

-----------------------------------------------------------------------------
(* Records.                                                                 *)

\* Records of different kinds, documents or slots are different.
LEMMA RecordNames ==
  /\ \A d, e : HeadOf(d) = HeadOf(e) => d = e
  /\ \A d, e : ContentOf(d) = ContentOf(e) => d = e
  /\ \A d, e, n, m : Fence(d, n) = Fence(e, m) => d = e /\ n = m
  /\ \A d, e : HeadOf(d) # ContentOf(e)
  /\ \A d, e, n : HeadOf(d) # Fence(e, n) /\ ContentOf(d) # Fence(e, n)
  /\ \A d, n : Fence(d, n)[2] = d
BY DEF HeadOf, ContentOf, Fence

\* The fences there are.
LEMMA FenceNames ==
  ASSUME TypeOK
  PROVE  /\ Slot \subseteq AnySlot /\ 0 \in Slot
         /\ \A d \in Doc, n \in Slot : Fence(d, n) \in FenceRec
         /\ \A f \in FenceRec : \E d \in Doc, n \in AnySlot : f = Fence(d, n) /\ f[2] = d
         /\ FenceRec \subseteq Record
         /\ \A d \in Doc : HeadOf(d) \in Record /\ ContentOf(d) \in Record
<1>1. deployment.slots \in 1 .. Slots /\ Slots \in Nat
  BY MongoLocksAssumption DEF TypeOK, Deployment
<1>2. Slot \subseteq AnySlot /\ 0 \in Slot
  BY <1>1 DEF Slot, AnySlot
<1>3. QED
  BY <1>2, RecordNames DEF FenceRec, Record

\* The types depend on the deployment only.
LEMMA SameTypes ==
  deployment' = deployment
    => /\ FenceRec' = FenceRec /\ Record' = Record
       /\ Server' = Server /\ Client' = Client
<1> SUFFICES ASSUME deployment' = deployment
             PROVE  /\ FenceRec' = FenceRec /\ Record' = Record
                    /\ Server' = Server /\ Client' = Client
  OBVIOUS
<1>1. Slot' = Slot
  BY DEF Slot
<1>2. FenceRec' = FenceRec
  BY <1>1 DEF FenceRec
<1>3. QED
  BY <1>1, <1>2 DEF Record, Server, Client

-----------------------------------------------------------------------------
(* Types.                                                                   *)

\* A transaction that is over is typed.
LEMMA NoneTypes == NoServer \in Server /\ NoClient \in Client
<1>1. 0 \in 0 .. MaxLocks + 1 /\ <<>> \in Seq(Call)
  BY MongoLocksAssumption
<1>2. NoServer \in Server
  BY DEF NoServer, Server
<1>3. \A at \in 0 .. MaxLocks + 1, locks \in Seq(Call) :
        [pc |-> "ended", call |-> NoCall, at |-> at, stmt |-> "first",
         locks |-> locks, wrote |-> FALSE, slot |-> NoSlot, exclusive |-> {}] \in Client
  BY DEF Client
<1>4. QED
  BY <1>1, <1>2, <1>3 DEF NoClient

\* A client whose call has ended in one way or the other.
Ended(c, pc) == [c EXCEPT !.pc = pc, !.call = NoCall, !.at = 0, !.stmt = "first"]

\* What ends with a call, and what stays.
LEMMA EndedTypes ==
  ASSUME NEW c \in Client, NEW pc \in {"idle", "failed"}, NEW x, x = Ended(c, pc)
  PROVE  /\ x \in Client /\ x.pc = pc /\ x.stmt = "first" /\ x.call = NoCall
         /\ x.locks = c.locks /\ x.exclusive = c.exclusive /\ x.wrote = c.wrote
         /\ x.slot = c.slot
<1>1. 0 \in 0 .. MaxLocks + 1
  BY MongoLocksAssumption
<1>2. \A at \in 0 .. MaxLocks + 1 :
        [c EXCEPT !.pc = pc, !.call = NoCall, !.at = at, !.stmt = "first"] \in Client
  BY DEF Client
<1>3. x \in Client
  BY <1>1, <1>2 DEF Ended
<1>4. QED
  BY <1>3 DEF Ended, Client

\* Idle and Failed are the two ways.
LEMMA EndedWays ==
  ASSUME NEW c \in Client
  PROVE  Idle(c) = Ended(c, "idle") /\ Failed(c) = Ended(c, "failed")
BY DEF Idle, Failed, Ended, Client

\* The statement and the program counter of a client change.
LEMMA StmtTypes ==
  ASSUME NEW c \in Client, NEW x \in {"first", "rest", "insert", "content", "fences"}
  PROVE  LET y == [c EXCEPT !.stmt = x]
         IN /\ y \in Client /\ y.stmt = x /\ y.pc = c.pc /\ y.call = c.call
            /\ y.at = c.at /\ y.locks = c.locks /\ y.wrote = c.wrote
            /\ y.exclusive = c.exclusive /\ y.slot = c.slot
BY DEF Client

\* A client has its locks extended, or takes up the next one.
LEMMA LocksTypes ==
  ASSUME NEW c \in Client, c.call \in Call
  PROVE  LET y == [c EXCEPT !.locks = Append(c.locks, c.call)]
         IN /\ y \in Client /\ y.pc = c.pc /\ y.exclusive = c.exclusive /\ y.wrote = c.wrote
            /\ y.slot = c.slot /\ y.locks = Append(c.locks, c.call)
<1>1. Append(c.locks, c.call) \in Seq(Call)
  BY DEF Client
<1>2. \A l \in Seq(Call) : [c EXCEPT !.locks = l] \in Client
  BY DEF Client
<1>3. QED
  BY <1>1, <1>2 DEF Client

\* What takeLock leaves behind: the call's lock is added, or the restart goes
\* on with the next lock or fails.
TookClient(c) ==
  IF ~(c.at <= Len(c.locks)) THEN Idle([c EXCEPT !.locks = Append(@, c.call)])
  ELSE IF c.locks[c.at].moved THEN Failed(c)
  ELSE [c EXCEPT !.at = @ + 1, !.stmt = "first"]

\* Took in terms of that client.
LEMMA TookEffect ==
  ASSUME TypeOK, NEW t \in Tx, NEW c \in Client, Took(t, c)
  PROVE  /\ client' = [client EXCEPT ![t] = TookClient(c)]
         /\ asking' \subseteq asking
<1>1. client' = [client EXCEPT ![t] = TookClient(c)]
  BY Zenon DEF Took, TookClient
<1>2. asking' = asking \/ asking' = asking \ {t}
  BY DEF Took
<1>3. QED
  BY <1>1, <1>2

\* That client, case by case.
LEMMA TookCases ==
  ASSUME NEW c \in Client, c.pc = "taking", c.call \in Call, c.at \in 1 .. Len(c.locks) + 1,
         Len(c.locks) < MaxLocks, NEW x, x = TookClient(c)
  PROVE  /\ x \in Client /\ x.stmt = "first" /\ Len(x.locks) <= MaxLocks
         /\ x.exclusive = c.exclusive
         /\ \/ /\ c.at = Len(c.locks) + 1
               /\ x.pc = "idle" /\ x.locks = Append(c.locks, c.call)
            \/ /\ c.at <= Len(c.locks) /\ c.locks[c.at].moved /\ x.pc = "failed"
               /\ x.locks = c.locks
            \/ /\ c.at <= Len(c.locks) /\ ~c.locks[c.at].moved /\ x.pc = "taking"
               /\ x.locks = c.locks /\ x.at = c.at + 1 /\ x.call = c.call
<1>1. Len(c.locks) \in Nat /\ c.at \in Nat /\ MaxLocks \in Nat /\ c.locks \in Seq(Call)
  BY MongoLocksAssumption DEF Client
<1>2. CASE c.at > Len(c.locks)
  <2> DEFINE y == [c EXCEPT !.locks = Append(c.locks, c.call)]
  <2>1. y \in Client /\ y.exclusive = c.exclusive /\ y.locks = Append(c.locks, c.call)
    BY LocksTypes
  <2>2. x = Ended(y, "idle")
    BY <1>2, <2>1, EndedWays DEF TookClient
  <2> HIDE DEF y
  <2>3. /\ x \in Client /\ x.stmt = "first" /\ x.exclusive = y.exclusive
        /\ x.pc = "idle" /\ x.locks = y.locks
    BY <2>1, <2>2, EndedTypes
  <2>4. Len(Append(c.locks, c.call)) = Len(c.locks) + 1
    BY <1>1
  <2>5. c.at = Len(c.locks) + 1 /\ Len(x.locks) <= MaxLocks
    BY <1>1, <1>2, <2>1, <2>3, <2>4
  <2>6. QED
    BY <2>1, <2>3, <2>5
<1>3. CASE c.at <= Len(c.locks) /\ c.locks[c.at].moved
  <2>1. x = Ended(c, "failed")
    BY <1>1, <1>3, EndedWays DEF TookClient
  <2>2. QED
    BY <1>1, <1>3, <2>1, EndedTypes
<1>4. CASE c.at <= Len(c.locks) /\ ~c.locks[c.at].moved
  <2>1. x = [c EXCEPT !.at = c.at + 1, !.stmt = "first"]
    BY <1>1, <1>4 DEF TookClient
  <2>2. c.at + 1 \in 0 .. MaxLocks + 1
    BY <1>1, <1>4
  <2>3. \A at \in 0 .. MaxLocks + 1 : [c EXCEPT !.at = at, !.stmt = "first"] \in Client
    BY DEF Client
  <2>4. x \in Client
    BY <2>1, <2>2, <2>3
  <2>5. QED
    BY <1>1, <1>4, <2>1, <2>4 DEF Client
<1>5. QED
  BY <1>1, <1>2, <1>3, <1>4

\* What a queue hold becomes is typed.
LEMMA HoldTypes ==
  ASSUME TypeOK, NEW t \in Tx
  PROVE  /\ \A d \in Doc, mode \in {"shared", "exclusive"} :
              Held(t, d, mode) \in [Doc -> Hold \cup {NoHold}]
         /\ HoldsWait(t) \in [Doc -> Hold \cup {NoHold}]
         /\ NoHolds \in [Doc -> Hold \cup {NoHold}]
         /\ hold[t] \in [Doc -> Hold \cup {NoHold}]
<1>1. hold[t] \in [Doc -> Hold \cup {NoHold}]
  BY DEF TypeOK
<1>2. ASSUME NEW d \in Doc, NEW mode \in {"shared", "exclusive"}
      PROVE  Held(t, d, mode) \in [Doc -> Hold \cup {NoHold}]
  <2> DEFINE m == IF hold[t][d] # NoHold /\ hold[t][d].mode = "exclusive" THEN "exclusive" ELSE mode
  <2>1. [mode |-> m, waiting |-> FALSE, lapsed |-> FALSE] \in Hold
    BY DEF Hold
  <2>2. Held(t, d, mode) = hold[t]
        \/ Held(t, d, mode) = [hold[t] EXCEPT ![d] =
                                 [mode |-> m, waiting |-> FALSE, lapsed |-> FALSE]]
    BY <1>1 DEF Held
  <2>3. QED
    BY <1>1, <2>1, <2>2
<1>3. HoldsWait(t) \in [Doc -> Hold \cup {NoHold}]
  <2>1. \A d \in Doc : Holds(t, d) => [hold[t][d] EXCEPT !.waiting = TRUE] \in Hold
    BY <1>1 DEF Holds, Hold
  <2>2. QED
    BY <2>1 DEF HoldsWait
<1>4. NoHolds \in [Doc -> Hold \cup {NoHold}]
  BY DEF NoHolds
<1>5. QED
  BY <1>1, <1>2, <1>3, <1>4

-----------------------------------------------------------------------------
(* Views.                                                                   *)

\* A server transaction without a snapshot, or one that was aborted.
LEMMA ClosedView ==
  ASSUME NEW s \in Server, NEW D, NEW F, s.state # "open", s.writes = {}
  PROVE  SoundView(s, D, F)
BY DEF SoundView

\* A new snapshot.
LEMMA FreshView ==
  ASSUME NEW s \in Server, s.writes = {}, s.stale = {}
  PROVE  SoundView(s, s.docs, s.fences)
BY DEF SoundView

\* Writing records that the transaction sees: heads of documents it sees,
\* contents with their heads, and fences it sees.
LEMMA WriteView ==
  ASSUME NEW s \in Server, NEW D, NEW F, SoundView(s, D, F),
         \A d \in Doc, n \in AnySlot : Fence(d, n) \in F => d \in D,
         s.state = "open", NEW R \in SUBSET Record, R \cap s.stale = {},
         \A d \in Doc :
           /\ HeadOf(d) \in R => d \in s.docs
           /\ ContentOf(d) \in R => HeadOf(d) \in R
           /\ \A n \in AnySlot : Fence(d, n) \in R => Fence(d, n) \in s.fences,
         NEW x \in Server, x.writes = s.writes \cup R, x.state = "open",
         x.docs = s.docs, x.fences = s.fences, x.stale = s.stale
  PROVE  SoundView(x, D, F)
<1>1. /\ x.writes = s.writes \cup R /\ x.state = "open"
      /\ x.docs = s.docs /\ x.fences = s.fences /\ x.stale = s.stale
  OBVIOUS
<1>2. x.writes \cap x.stale = {}
  BY <1>1 DEF SoundView
<1>3. ASSUME NEW d \in Doc
      PROVE  /\ HeadOf(d) \in x.writes => d \in D
             /\ ContentOf(d) \in x.writes => HeadOf(d) \in x.writes
             /\ \A n \in AnySlot : Fence(d, n) \in x.writes =>
                  d \in D /\ (Fence(d, n) \in x.fences \/ HeadOf(d) \in x.writes)
  <2>1. HeadOf(d) \in R => d \in D
    BY DEF SoundView
  <2>2. HeadOf(d) \in s.writes => d \in D
    BY DEF SoundView
  <2>3. ContentOf(d) \in x.writes => HeadOf(d) \in x.writes
    BY <1>1 DEF SoundView
  <2>4. ASSUME NEW n \in AnySlot, Fence(d, n) \in x.writes
        PROVE  d \in D /\ (Fence(d, n) \in x.fences \/ HeadOf(d) \in x.writes)
    <3>1. CASE Fence(d, n) \in s.writes
      BY <1>1, <3>1 DEF SoundView
    <3>2. CASE Fence(d, n) \in R
      <4>1. Fence(d, n) \in s.fences /\ Fence(d, n) \notin s.stale
        BY <3>2
      <4>2. Fence(d, n) \in F \/ HeadOf(d) \in s.writes
        BY <4>1 DEF SoundView
      <4>3. QED
        BY <1>1, <2>2, <4>1, <4>2
    <3>3. QED
      BY <1>1, <2>4, <3>1, <3>2
  <2>5. QED
    BY <1>1, <2>1, <2>2, <2>3, <2>4
<1>4. ASSUME NEW d \in Doc
      PROVE  /\ d \in D \ x.docs => HeadOf(d) \in x.writes
             /\ d \in x.docs \ D => HeadOf(d) \in x.stale
             /\ \A n \in AnySlot :
                  /\ Fence(d, n) \in F \ x.fences =>
                       HeadOf(d) \in x.stale \/ Fence(d, n) \in x.writes
                  /\ Fence(d, n) \in x.fences \ F =>
                       Fence(d, n) \in x.stale \/ HeadOf(d) \in x.writes
             /\ ContentOf(d) \in x.stale =>
                  HeadOf(d) \in x.stale /\ FencesOf(x.fences, d) \subseteq x.stale
  BY <1>1 DEF SoundView
<1>5. QED
  BY <1>1, <1>2, <1>3, <1>4 DEF SoundView

\* Inserting a fence after the head was written.
LEMMA InsertView ==
  ASSUME NEW s \in Server, NEW D, NEW F, SoundView(s, D, F),
         s.state = "open", NEW e \in Doc, NEW m \in AnySlot, Fence(e, m) \notin s.stale, HeadOf(e) \in s.writes,
         NEW x \in Server, x.writes = s.writes \cup {Fence(e, m)}, x.state = "open",
         x.docs = s.docs, x.fences = s.fences \cup {Fence(e, m)}, x.stale = s.stale
  PROVE  SoundView(x, D, F)
<1>1. /\ x.writes = s.writes \cup {Fence(e, m)} /\ x.state = "open"
      /\ x.docs = s.docs /\ x.fences = s.fences \cup {Fence(e, m)} /\ x.stale = s.stale
  OBVIOUS
<1>2. x.writes \cap x.stale = {}
  BY <1>1 DEF SoundView
<1>3. HeadOf(e) \notin s.stale /\ e \in D
  BY DEF SoundView
<1>4. ASSUME NEW d \in Doc
      PROVE  /\ HeadOf(d) \in x.writes => d \in D
             /\ ContentOf(d) \in x.writes => HeadOf(d) \in x.writes
             /\ \A n \in AnySlot : Fence(d, n) \in x.writes =>
                  d \in D /\ (Fence(d, n) \in x.fences \/ HeadOf(d) \in x.writes)
  BY <1>1, <1>3, RecordNames DEF SoundView
<1>5. ASSUME NEW d \in Doc
      PROVE  /\ d \in D \ x.docs => HeadOf(d) \in x.writes
             /\ d \in x.docs \ D => HeadOf(d) \in x.stale
             /\ \A n \in AnySlot :
                  /\ Fence(d, n) \in F \ x.fences =>
                       HeadOf(d) \in x.stale \/ Fence(d, n) \in x.writes
                  /\ Fence(d, n) \in x.fences \ F =>
                       Fence(d, n) \in x.stale \/ HeadOf(d) \in x.writes
             /\ ContentOf(d) \in x.stale =>
                  HeadOf(d) \in x.stale /\ FencesOf(x.fences, d) \subseteq x.stale
  <2>1. /\ d \in D \ x.docs => HeadOf(d) \in x.writes
        /\ d \in x.docs \ D => HeadOf(d) \in x.stale
    BY <1>1 DEF SoundView
  <2>2. ASSUME NEW n \in AnySlot
        PROVE  /\ Fence(d, n) \in F \ x.fences =>
                    HeadOf(d) \in x.stale \/ Fence(d, n) \in x.writes
               /\ Fence(d, n) \in x.fences \ F =>
                    Fence(d, n) \in x.stale \/ HeadOf(d) \in x.writes
    BY <1>1, RecordNames DEF SoundView
  <2>3. ASSUME ContentOf(d) \in x.stale
        PROVE  HeadOf(d) \in x.stale /\ FencesOf(x.fences, d) \subseteq x.stale
    <3>1. HeadOf(d) \in s.stale /\ FencesOf(s.fences, d) \subseteq s.stale
      BY <1>1, <2>3 DEF SoundView
    <3>2. Fence(e, m)[2] # d
      BY <1>3, <3>1, RecordNames
    <3>3. QED
      BY <1>1, <3>1, <3>2 DEF FencesOf
  <2>4. QED
    BY <2>1, <2>2, <2>3
<1>6. QED
  BY <1>1, <1>2, <1>4, <1>5 DEF SoundView

\* Deleting a document after its head and content were written.
LEMMA DeleteView ==
  ASSUME NEW s \in Server, NEW D, NEW F, SoundView(s, D, F),
         s.state = "open", NEW e \in Doc, HeadOf(e) \in s.writes,
         NEW x, x = [s EXCEPT !.docs = s.docs \ {e}]
  PROVE  /\ x \in Server /\ x.writes = s.writes /\ x.state = "open"
         /\ x.docs = s.docs \ {e} /\ x.fences = s.fences /\ x.stale = s.stale
         /\ SoundView(x, D, F)
<1>1. /\ x \in Server /\ x.writes = s.writes /\ x.state = "open"
      /\ x.docs = s.docs \ {e} /\ x.fences = s.fences /\ x.stale = s.stale
  BY DEF Server
<1>2. QED
  BY <1>1 DEF SoundView

\* Deleting the fences of a document whose head was written.
LEMMA DeleteFencesView ==
  ASSUME NEW s \in Server, NEW D, NEW F, SoundView(s, D, F),
         s.state = "open", NEW e \in Doc, HeadOf(e) \in s.writes,
         FencesOf(s.fences, e) \subseteq s.writes,
         NEW x, x = [s EXCEPT !.fences = s.fences \ FencesOf(s.fences, e)]
  PROVE  /\ x \in Server /\ x.writes = s.writes /\ x.state = "open"
         /\ x.docs = s.docs /\ x.fences = s.fences \ FencesOf(s.fences, e)
         /\ x.stale = s.stale
         /\ SoundView(x, D, F)
<1>1. /\ x \in Server /\ x.writes = s.writes /\ x.state = "open"
      /\ x.docs = s.docs /\ x.fences = s.fences \ FencesOf(s.fences, e)
      /\ x.stale = s.stale
  <2>1. s.fences \ FencesOf(s.fences, e) \in SUBSET FenceRec
    BY DEF Server
  <2>2. \A f \in SUBSET FenceRec : [s EXCEPT !.fences = f] \in Server
    BY DEF Server
  <2>3. QED
    BY <2>1, <2>2 DEF Server
<1>2. \A d \in Doc, n \in AnySlot :
        Fence(d, n) \in s.fences \ x.fences => d = e /\ Fence(d, n) \in s.writes
  BY <1>1, RecordNames DEF FencesOf
<1>3. ASSUME NEW d \in Doc
      PROVE  /\ HeadOf(d) \in x.writes => d \in D
             /\ ContentOf(d) \in x.writes => HeadOf(d) \in x.writes
             /\ \A n \in AnySlot : Fence(d, n) \in x.writes =>
                  d \in D /\ (Fence(d, n) \in x.fences \/ HeadOf(d) \in x.writes)
  BY <1>1, <1>2 DEF SoundView
<1>4. ASSUME NEW d \in Doc
      PROVE  /\ d \in D \ x.docs => HeadOf(d) \in x.writes
             /\ d \in x.docs \ D => HeadOf(d) \in x.stale
             /\ \A n \in AnySlot :
                  /\ Fence(d, n) \in F \ x.fences =>
                       HeadOf(d) \in x.stale \/ Fence(d, n) \in x.writes
                  /\ Fence(d, n) \in x.fences \ F =>
                       Fence(d, n) \in x.stale \/ HeadOf(d) \in x.writes
             /\ ContentOf(d) \in x.stale =>
                  HeadOf(d) \in x.stale /\ FencesOf(x.fences, d) \subseteq x.stale
  <2>1. FencesOf(x.fences, d) \subseteq FencesOf(s.fences, d)
    BY <1>1 DEF FencesOf
  <2>2. QED
    BY <1>1, <1>2, <2>1 DEF SoundView
<1>5. QED
  BY <1>1, <1>3, <1>4 DEF SoundView

-----------------------------------------------------------------------------
(* Conflicts.                                                               *)

\* Fences that a server transaction sees have names.
LEMMA SeenFences ==
  ASSUME TypeOK, NEW t \in Tx, NEW d \in Doc, NEW f \in FencesOf(server[t].fences, d)
  PROVE  \E n \in AnySlot : f = Fence(d, n)
<1>1. f \in FenceRec /\ f[2] = d
  BY DEF FencesOf, TypeOK, Server
<1>2. QED
  BY <1>1, FenceNames

\* What ServerInv says of one transaction.
LEMMA ServerFacts ==
  ASSUME ServerInv, NEW t \in Tx
  PROVE  /\ SoundView(server[t], docs, fences)
         /\ \A u \in Tx \ {t} : server[t].writes \cap server[u].writes = {}
         /\ \A d \in Doc, n \in AnySlot : Fence(d, n) \in fences => d \in docs
BY DEF ServerInv

\* What is committed and seen is written by a transaction that wrote the head
\* and all fences that it sees.
LEMMA WroteCommitted ==
  ASSUME TypeOK, ServerInv, NEW u \in Tx, server[u].state = "open", NEW d \in Doc,
         HeadOf(d) \in server[u].writes, WroteAll(server[u], d),
         NEW n \in AnySlot, Fence(d, n) \in fences
  PROVE  Fence(d, n) \in server[u].writes
<1>1. CASE Fence(d, n) \in server[u].fences
  BY <1>1, RecordNames DEF WroteAll, FencesOf
<1>2. CASE Fence(d, n) \notin server[u].fences
  <2>1. HeadOf(d) \notin server[u].stale
    BY ServerFacts DEF SoundView
  <2>2. QED
    BY <1>2, <2>1, ServerFacts DEF SoundView
<1>3. QED
  BY <1>1, <1>2

\* A transaction that wrote the head of a document and all its fences excludes
\* every other that wrote a record of it.
LEMMA Apart ==
  ASSUME TypeOK, ServerInv, NEW t \in Tx, NEW u \in Tx, t # u,
         server[t].state = "open", server[u].state = "open", NEW d \in Doc,
         HeadOf(d) \in server[u].writes, WroteAll(server[u], d), Covers(server[t], d)
  PROVE  FALSE
<1>1. HeadOf(d) \notin server[t].writes
  BY ServerFacts
<1>2. PICK f \in FencesOf(server[t].fences, d) : f \in server[t].writes
  BY <1>1 DEF Covers
<1>3. PICK n \in AnySlot : f = Fence(d, n)
  BY <1>2, SeenFences
<1>4. f \in fences
  BY <1>1, <1>2, <1>3, ServerFacts DEF SoundView, FencesOf
<1>5. f \in server[u].writes
  BY <1>3, <1>4, WroteCommitted
<1>6. QED
  BY <1>2, <1>5, ServerFacts

-----------------------------------------------------------------------------
(* Commits.                                                                 *)

\* Whose content a committing transaction wrote, it wrote the head of and all
\* fences.
LEMMA Committing ==
  ASSUME TypeOK, ServerInv, ClientInv, NEW t \in Tx, Commit(t)
  PROVE  /\ server[t].writes # {} => server[t].state = "open"
         /\ \A d \in Doc : ContentOf(d) \in server[t].writes =>
              HeadOf(d) \in server[t].writes /\ WroteAll(server[t], d)
         /\ \A d \in Deleted(t) : d \in Doc /\ ContentOf(d) \in server[t].writes
<1>1. client[t].pc = "idle"
  BY DEF Commit
<1>2. server[t].writes # {} => server[t].state = "open"
  BY ServerFacts DEF SoundView
<1>3. ASSUME NEW d \in Doc, ContentOf(d) \in server[t].writes
      PROVE  HeadOf(d) \in server[t].writes /\ WroteAll(server[t], d)
  <2>1. HeadOf(d) \in server[t].writes
    BY <1>3, ServerFacts DEF SoundView
  <2>2. server[t].state = "open"
    BY <1>2, <1>3
  <2>3. SoundLocks(server[t], client[t])
    BY DEF ClientInv
  <2>4. WroteAll(server[t], d)
    BY <1>1, <1>3, <2>2, <2>3 DEF SoundLocks
  <2>5. QED
    BY <2>1, <2>4
<1>4. QED
  BY <1>2, <1>3 DEF Deleted

\* A commit leaves no fence without its document.
LEMMA CommitFences ==
  ASSUME TypeOK, ServerInv, ClientInv, NEW t \in Tx, Commit(t),
         NEW d \in Doc, NEW n \in AnySlot, Fence(d, n) \in fences'
  PROVE  d \in docs'
<1> DEFINE f == Fence(d, n)
<1>1. /\ docs' = docs \ Deleted(t)
      /\ fences' = (fences \cup (FenceRec \cap server[t].writes)) \ Removed(t)
  BY DEF Commit
<1>2. f \in FenceRec /\ f[2] = d
  BY <1>1, RecordNames DEF TypeOK
<1>3. d \in Deleted(t) => f \notin server[t].writes
  BY <1>1, <1>2 DEF Removed
<1>4. CASE f \in fences
  <2>1. d \in docs
    BY <1>4, ServerFacts
  <2>2. ASSUME d \in Deleted(t) PROVE FALSE
    <3>1. /\ server[t].state = "open" /\ HeadOf(d) \in server[t].writes
          /\ WroteAll(server[t], d)
      BY <2>2, Committing
    <3>2. f \in server[t].writes
      BY <1>4, <3>1, WroteCommitted
    <3>3. QED
      BY <1>3, <2>2, <3>2
  <2>3. QED
    BY <1>1, <2>1, <2>2
<1>5. CASE f \in server[t].writes
  <2>1. d \in docs
    BY <1>5, ServerFacts DEF SoundView
  <2>2. QED
    BY <1>1, <1>3, <1>5, <2>1
<1>6. QED
  BY <1>1, <1>4, <1>5

\* A commit does not spoil the view of another open transaction.
LEMMA CommitView ==
  ASSUME TypeOK, ServerInv, ClientInv, NEW t \in Tx, Commit(t),
         NEW u \in Tx \ {t}, server[u].state = "open",
         NEW x, x = [server[u] EXCEPT !.stale = server[u].stale \cup server[t].writes]
  PROVE  SoundView(x, docs', fences') /\ x \in Server
<1> DEFINE s == server[u]
           w == server[t].writes
<1>1. /\ docs' = docs \ Deleted(t)
      /\ fences' = (fences \cup (FenceRec \cap w)) \ Removed(t)
  BY DEF Commit
<1>2. /\ x \in Server /\ x.writes = s.writes /\ x.state = "open" /\ x.docs = s.docs
      /\ x.fences = s.fences /\ x.stale = s.stale \cup w
  BY DEF TypeOK, Server
<1>3. /\ SoundView(s, docs, fences) /\ SoundView(server[t], docs, fences)
      /\ s.writes \cap w = {}
  BY ServerFacts
<1>4. w # {} => server[t].state = "open"
  BY Committing
<1>5. \A d \in Deleted(t) : HeadOf(d) \in w /\ WroteAll(server[t], d)
  BY Committing
<1>6. x.writes \cap x.stale = {}
  BY <1>2, <1>3 DEF SoundView
<1>7. ASSUME NEW d \in Doc
      PROVE  /\ HeadOf(d) \in x.writes => d \in docs'
             /\ ContentOf(d) \in x.writes => HeadOf(d) \in x.writes
             /\ \A n \in AnySlot : Fence(d, n) \in x.writes =>
                  d \in docs' /\ (Fence(d, n) \in x.fences \/ HeadOf(d) \in x.writes)
  <2>1. HeadOf(d) \in x.writes => d \in docs'
    BY <1>1, <1>2, <1>3, <1>5 DEF SoundView
  <2>2. ASSUME NEW n \in AnySlot, Fence(d, n) \in x.writes
        PROVE  d \in docs' /\ (Fence(d, n) \in x.fences \/ HeadOf(d) \in x.writes)
    <3>1. d \in docs /\ (Fence(d, n) \in s.fences \/ HeadOf(d) \in s.writes)
      BY <1>2, <1>3, <2>2 DEF SoundView
    <3>2. Covers(s, d)
      BY <1>2, <2>2, <3>1, RecordNames DEF Covers, FencesOf
    <3>3. d \notin Deleted(t)
      BY <1>4, <1>5, <3>2, Apart
    <3>4. QED
      BY <1>1, <1>2, <3>1, <3>3
  <2>3. ContentOf(d) \in x.writes => HeadOf(d) \in x.writes
    BY <1>2, <1>3 DEF SoundView
  <2>4. QED
    BY <2>1, <2>2, <2>3
<1>8. ASSUME NEW d \in Doc
      PROVE  /\ d \in docs' \ x.docs => HeadOf(d) \in x.writes
             /\ d \in x.docs \ docs' => HeadOf(d) \in x.stale
             /\ \A n \in AnySlot :
                  /\ Fence(d, n) \in fences' \ x.fences =>
                       HeadOf(d) \in x.stale \/ Fence(d, n) \in x.writes
                  /\ Fence(d, n) \in x.fences \ fences' =>
                       Fence(d, n) \in x.stale \/ HeadOf(d) \in x.writes
             /\ ContentOf(d) \in x.stale =>
                  HeadOf(d) \in x.stale /\ FencesOf(x.fences, d) \subseteq x.stale
  <2>1. /\ d \in docs' \ x.docs => HeadOf(d) \in x.writes
        /\ d \in x.docs \ docs' => HeadOf(d) \in x.stale
    BY <1>1, <1>2, <1>3, <1>5 DEF SoundView
  <2>2. ASSUME NEW n \in AnySlot, Fence(d, n) \in fences' \ x.fences
        PROVE  HeadOf(d) \in x.stale \/ Fence(d, n) \in x.writes
    <3>1. CASE Fence(d, n) \in fences
      BY <1>2, <1>3, <2>2, <3>1 DEF SoundView
    <3>2. CASE Fence(d, n) \in w /\ Fence(d, n) \notin fences
      <4>1. Fence(d, n) \in server[t].fences \/ HeadOf(d) \in w
        BY <1>3, <3>2 DEF SoundView
      <4>2. Fence(d, n) \notin server[t].stale
        BY <1>3, <3>2 DEF SoundView
      <4>3. HeadOf(d) \in w
        BY <1>3, <1>4, <3>2, <4>1, <4>2 DEF SoundView
      <4>4. QED
        BY <1>2, <4>3
    <3>3. QED
      BY <1>1, <2>2, <3>1, <3>2
  <2>3. ASSUME NEW n \in AnySlot, Fence(d, n) \in x.fences \ fences'
        PROVE  Fence(d, n) \in x.stale \/ HeadOf(d) \in x.writes
    <3>1. CASE Fence(d, n) \in fences
      BY <1>1, <1>2, <2>3, <3>1 DEF Removed
    <3>2. CASE Fence(d, n) \notin fences
      BY <1>2, <1>3, <2>3, <3>2 DEF SoundView
    <3>3. QED
      BY <3>1, <3>2
  <2>4. ASSUME ContentOf(d) \in x.stale
        PROVE  HeadOf(d) \in x.stale /\ FencesOf(x.fences, d) \subseteq x.stale
    <3>1. CASE ContentOf(d) \in s.stale
      BY <1>2, <1>3, <3>1 DEF SoundView
    <3>2. CASE ContentOf(d) \in w
      <4>1. HeadOf(d) \in w /\ WroteAll(server[t], d) /\ server[t].state = "open"
        BY <1>4, <3>2, Committing
      <4>2. ASSUME NEW f \in FencesOf(s.fences, d) PROVE f \in x.stale
        <5>1. PICK n \in AnySlot : f = Fence(d, n)
          BY SeenFences
        <5>2. CASE f \in fences
          BY <1>2, <4>1, <5>1, <5>2, WroteCommitted
        <5>3. CASE f \notin fences
          <6>1. f \in s.stale \/ HeadOf(d) \in s.writes
            BY <1>3, <4>2, <5>1, <5>3 DEF SoundView, FencesOf
          <6>2. QED
            BY <1>2, <1>3, <4>1, <6>1
        <5>4. QED
          BY <5>2, <5>3
      <4>3. QED
        BY <1>2, <4>1, <4>2
    <3>3. QED
      BY <1>2, <2>4, <3>1, <3>2
  <2>5. QED
    BY <2>1, <2>2, <2>3, <2>4
<1>9. QED
  BY <1>2, <1>6, <1>7, <1>8 DEF SoundView

-----------------------------------------------------------------------------
(* Steps of one transaction.                                                *)

\* A server transaction and a client that agree, given what is committed.
Fits(s, c) ==
  /\ s \in Server /\ c \in Client /\ Len(c.locks) <= MaxLocks
  /\ SoundView(s, docs, fences)
  /\ SoundCall(c) /\ SoundLocks(s, c)

\* t moves on to the server transaction s and the client c; nothing is committed.
Moves(t, s, c) ==
  /\ server' = [server EXCEPT ![t] = s]
  /\ client' = [client EXCEPT ![t] = c]
  /\ UNCHANGED <<docs, fences>>

\* s is in nobody's way.
Alone(t, s) == \A u \in Tx \ {t} : s.writes \cap server[u].writes = {}

\* A step of t that keeps ServerInv and ClientInv.
Good(t) == \E s, c : Moves(t, s, c) /\ Fits(s, c) /\ Alone(t, s)

\* The present state fits.
LEMMA FitsNow ==
  ASSUME TypeOK, ServerInv, ClientInv, NEW t \in Tx
  PROVE  /\ Fits(server[t], client[t]) /\ Alone(t, server[t])
         /\ server = [server EXCEPT ![t] = server[t]]
         /\ client = [client EXCEPT ![t] = client[t]]
<1>1. /\ server[t] \in Server /\ client[t] \in Client /\ Len(client[t].locks) <= MaxLocks
      /\ server = [server EXCEPT ![t] = server[t]]
      /\ client = [client EXCEPT ![t] = client[t]]
  BY DEF TypeOK
<1>2. SoundCall(client[t]) /\ SoundLocks(server[t], client[t])
  BY DEF ClientInv
<1>3. SoundView(server[t], docs, fences) /\ Alone(t, server[t])
  BY ServerFacts DEF Alone
<1>4. QED
  BY <1>1, <1>2, <1>3 DEF Fits

\* Such a step does what its name says.
LEMMA GoodStep ==
  ASSUME TypeOK, ServerInv, ClientInv, deployment' = deployment, NEW t \in Tx, Good(t)
  PROVE  /\ docs' \subseteq deployment'.docs /\ fences' \subseteq FenceRec'
         /\ server' \in [Tx -> Server'] /\ client' \in [Tx -> Client']
         /\ \A u \in Tx : Len(client'[u].locks) <= MaxLocks
         /\ ServerInv' /\ ClientInv'
<1> PICK s, c : Moves(t, s, c) /\ Fits(s, c) /\ Alone(t, s)
  BY DEF Good
<1>1. /\ server' = [server EXCEPT ![t] = s] /\ client' = [client EXCEPT ![t] = c]
      /\ docs' = docs /\ fences' = fences /\ s \in Server /\ c \in Client
      /\ FenceRec' = FenceRec /\ Server' = Server /\ Client' = Client
  BY SameTypes DEF Moves, Fits
<1>2. /\ server'[t] = s /\ \A u \in Tx \ {t} : server'[u] = server[u]
      /\ client'[t] = c /\ \A u \in Tx \ {t} : client'[u] = client[u]
      /\ server' \in [Tx -> Server] /\ client' \in [Tx -> Client]
  BY <1>1 DEF TypeOK
<1>3. docs' \subseteq deployment'.docs /\ fences' \subseteq FenceRec'
  BY <1>1 DEF TypeOK
<1>4. \A u \in Tx : Len(client'[u].locks) <= MaxLocks
  BY <1>2 DEF TypeOK, Fits
<1>5. \A u \in Tx : SoundView(server'[u], docs', fences')
  BY <1>1, <1>2, ServerFacts DEF Fits
<1>6. \A u, v \in Tx : u # v => server'[u].writes \cap server'[v].writes = {}
  <2> SUFFICES ASSUME NEW u \in Tx, NEW v \in Tx, u # v
               PROVE  server'[u].writes \cap server'[v].writes = {}
    OBVIOUS
  <2>1. CASE u # t /\ v # t
    BY <1>2, <2>1, ServerFacts
  <2>2. CASE u = t
    BY <1>2, <2>2 DEF Alone
  <2>3. CASE v = t
    BY <1>2, <2>3 DEF Alone
  <2>4. QED
    BY <2>1, <2>2, <2>3
<1>7. ServerInv'
  BY <1>1, <1>5, <1>6, ServerFacts DEF ServerInv
<1>8. ClientInv'
  BY <1>2 DEF ClientInv, Fits
<1>9. QED
  BY <1>1, <1>2, <1>3, <1>4, <1>7, <1>8

\* Without a snapshot a server transaction fits a client that holds nothing.
LEMMA QuietFits ==
  ASSUME NEW s \in Server, s.state # "open", s.writes = {},
         NEW c \in Client, Len(c.locks) <= MaxLocks, SoundCall(c), SoundLocks(s, c),
         NEW t \in Tx, Moves(t, s, c)
  PROVE  Good(t)
<1>1. SoundView(s, docs, fences) /\ Alone(t, s)
  BY ClosedView DEF Alone
<1>2. QED
  BY <1>1 DEF Good, Fits

-----------------------------------------------------------------------------
(* A transaction begins, waits, or ends without a commit.                   *)

\* Begin starts from nothing.
LEMMA BeginGood ==
  ASSUME TypeOK, ServerInv, ClientInv, NEW t \in Tx, Begin(t)
  PROVE  Good(t)
<1> DEFINE s == [NoServer EXCEPT !.state = "started"]
           c == [NoClient EXCEPT !.pc = "idle"]
<1>1. client[t] = NoClient /\ server[t] = NoServer
  BY DEF Begin, ClientInv, SoundCall, SoundLocks
<1>2. Moves(t, s, c)
  BY <1>1 DEF Begin, Moves, TypeOK
<1>3. s \in Server /\ s.state = "started" /\ s.writes = {}
  BY NoneTypes DEF NoServer, Server
<1>4. /\ c \in Client /\ c.pc = "idle" /\ c.stmt = "first" /\ c.exclusive = {}
      /\ c.locks = <<>>
  BY NoneTypes DEF NoClient, Client
<1>5. Len(c.locks) <= MaxLocks
  BY <1>4, MongoLocksAssumption
<1>6. SoundCall(c) /\ SoundLocks(s, c)
  BY <1>3, <1>4 DEF SoundCall, SoundLocks
<1>7. QED
  BY <1>2, <1>3, <1>4, <1>5, <1>6, QuietFits

\* Nothing fits nothing.
LEMMA NothingFits ==
  /\ Len(NoClient.locks) <= MaxLocks /\ SoundCall(NoClient)
  /\ SoundLocks(NoServer, NoClient) /\ NoServer.state = "none" /\ NoServer.writes = {}
  /\ NoClient.pc = "ended"
<1>1. /\ NoClient.locks = <<>> /\ NoClient.pc = "ended" /\ NoClient.stmt = "first"
      /\ NoClient.exclusive = {} /\ NoServer.state = "none" /\ NoServer.writes = {}
  BY DEF NoClient, NoServer
<1>2. QED
  BY <1>1, MongoLocksAssumption DEF SoundCall, SoundLocks

\* Rollback leaves nothing.
LEMMA RollbackGood ==
  ASSUME TypeOK, ServerInv, ClientInv, NEW t \in Tx, Rollback(t)
  PROVE  Good(t)
<1>1. Moves(t, NoServer, NoClient)
  BY DEF Rollback, End, Moves
<1>2. QED
  BY <1>1, NothingFits, NoneTypes, QuietFits

\* A call that ends in failure when nothing is held.
LEMMA FailedFits ==
  ASSUME TypeOK, ServerInv, ClientInv, NEW t \in Tx, client[t].pc # "ended",
         NEW s \in Server, s.state \in {"none", "aborted"}, s.writes = {},
         s.state = "none" => server[t].state = "none",
         Moves(t, s, Failed(client[t]))
  PROVE  Good(t)
<1>1. client[t] \in Client /\ Len(client[t].locks) <= MaxLocks
  BY DEF TypeOK
<1> DEFINE c == Failed(client[t])
<1>2. /\ c \in Client /\ c.pc = "failed" /\ c.stmt = "first" /\ c.locks = client[t].locks
      /\ c.exclusive = client[t].exclusive
  BY <1>1, EndedTypes, EndedWays
<1> HIDE DEF c
<1>3. SoundCall(c)
  BY <1>2 DEF SoundCall
<1>4. SoundLocks(server[t], client[t])
  BY DEF ClientInv
<1>5. s.state = "none" => c.exclusive = {}
  BY <1>2, <1>4 DEF SoundLocks
<1>6. SoundLocks(s, c)
  BY <1>2, <1>5 DEF SoundLocks
<1>7. Moves(t, s, c)
  BY DEF c
<1>8. QED
  BY <1>1, <1>2, <1>3, <1>6, <1>7, QuietFits

\* The budget ends a wait.
LEMMA WaitEndsGood ==
  ASSUME TypeOK, ServerInv, ClientInv, NEW t \in Tx, WaitEnds(t)
  PROVE  Good(t)
<1>1. Moves(t, server[t], Failed(client[t]))
  BY FitsNow DEF WaitEnds, Moves
<1>2. client[t].pc = "turn" /\ server[t].state = "none" /\ server[t] \in Server
  BY DEF WaitEnds, TypeOK
<1>3. server[t].writes = {}
  BY <1>2, ServerFacts DEF SoundView
<1>4. QED
  BY <1>1, <1>2, <1>3, FailedFits

\* A transaction gives up its server transaction to wait for a lock.
LEMMA SuspendGood ==
  ASSUME TypeOK, ServerInv, ClientInv, NEW t \in Tx, Suspend(t),
         client[t].pc \in {"turn", "taking"}
  PROVE  Good(t)
<1> DEFINE s == Dropped(t)
           k == client[t]
           c == [k EXCEPT !.pc = "turn", !.at = 0, !.stmt = "first", !.exclusive = {}]
<1>1. k \in Client /\ server[t] \in Server /\ Len(k.locks) <= MaxLocks /\ SoundCall(k)
  BY DEF TypeOK, ClientInv
<1>2. Moves(t, s, c)
  BY DEF Suspend, Moves, TypeOK
<1>3. s \in Server /\ s.state = "none" /\ s.writes = {}
  <2>1. server[t].stale \cap LockedBodies(t) \in SUBSET Record
    BY <1>1 DEF Server
  <2>2. \A z \in SUBSET Record : [NoServer EXCEPT !.stale = z] \in Server
    BY DEF Server, NoServer
  <2>3. QED
    BY <2>1, <2>2 DEF Dropped, NoServer
<1>4. /\ c \in Client /\ c.pc = "turn" /\ c.stmt = "first" /\ c.exclusive = {}
      /\ c.locks = k.locks /\ c.call = k.call
  <2>1. 0 \in 0 .. MaxLocks + 1
    BY MongoLocksAssumption
  <2>2. \A n \in 0 .. MaxLocks + 1 :
          [k EXCEPT !.pc = "turn", !.at = n, !.stmt = "first", !.exclusive = {}] \in Client
    BY <1>1 DEF Client
  <2>3. c \in Client
    BY <2>1, <2>2
  <2>4. QED
    BY <1>1, <2>3 DEF Client
<1> HIDE DEF s, c
<1>5. SoundCall(c) /\ SoundLocks(s, c)
  BY <1>1, <1>3, <1>4 DEF SoundCall, SoundLocks
<1>6. QED
  BY <1>1, <1>2, <1>3, <1>4, <1>5, QuietFits

\* A conflict is absorbed, or fails the call.
LEMMA ConflictedGood ==
  ASSUME TypeOK, ServerInv, ClientInv, NEW t \in Tx, Conflicted(t),
         client[t].pc \in {"taking", "writing"}
  PROVE  Good(t)
<1>1. CASE CanRestart(t)
  <2>1. client[t].pc = "taking"
    BY <1>1 DEF CanRestart, ClientInv, SoundCall
  <2>2. QED
    BY <1>1, <2>1, SuspendGood DEF Conflicted
<1>2. CASE ~CanRestart(t)
  <2> DEFINE s == [NoServer EXCEPT !.state = "aborted"]
  <2>1. s \in Server /\ s.state = "aborted" /\ s.writes = {}
    BY NoneTypes DEF NoServer, Server
  <2>2. Moves(t, s, Failed(client[t]))
    BY <1>2 DEF Conflicted, Moves
  <2>3. QED
    BY <2>1, <2>2, FailedFits
<1>3. QED
  BY <1>1, <1>2

\* turn finds a conflicting lock.
LEMMA AwaitTurnGood ==
  ASSUME TypeOK, ServerInv, ClientInv, NEW t \in Tx, AwaitTurn(t)
  PROVE  Good(t)
BY SuspendGood DEF AwaitTurn

\* The server gives up a transaction: it has written nothing.
LEMMA ServerAbortsGood ==
  ASSUME TypeOK, ServerInv, ClientInv, NEW t \in Tx, ServerAborts(t)
  PROVE  Good(t)
<1> DEFINE s == [server[t] EXCEPT !.state = "aborted", !.writes = {}]
<1>1. Moves(t, s, client[t])
  BY FitsNow DEF ServerAborts, Moves, TypeOK
<1>2. s \in Server /\ s.state = "aborted" /\ s.writes = {} /\ server[t].state = "open"
  BY DEF TypeOK, Server, ServerAborts
<1>3. Fits(server[t], client[t])
  BY FitsNow
<1>4. client[t].pc # "ended"
  BY <1>2, <1>3, NothingFits DEF Fits, SoundLocks
<1> HIDE DEF s
<1>5. SoundLocks(s, client[t])
  BY <1>2, <1>4 DEF SoundLocks
<1>6. QED
  BY <1>1, <1>2, <1>3, <1>5, QuietFits DEF Fits

-----------------------------------------------------------------------------
(* Steps that write nothing.                                                *)

\* A step of a client that leaves its locks alone.
LEMMA ClientFits ==
  ASSUME TypeOK, ServerInv, ClientInv, NEW t \in Tx, client[t].pc \notin {"ended", "writing"},
         NEW c \in Client, SoundCall(c), c.pc # "ended",
         c.locks = client[t].locks, c.exclusive = client[t].exclusive,
         Taken(server[t], c) \subseteq Taken(server[t], client[t]),
         \/ c.stmt = "first"
         \/ /\ c.pc = "writing" /\ c.stmt = "content"
            /\ c.call.mode = "delete" \/ c.call.doc \in c.exclusive,
         server[t].state = "started" => client[t].pc # "taking",
         Moves(t, server[t], c)
  PROVE  Good(t)
<1> DEFINE s == server[t]
           k == client[t]
<1>1. Fits(s, k) /\ Alone(t, s) /\ SoundLocks(s, k)
  BY FitsNow DEF Fits
<1>2. s.state \in {"none", "started"} => c.exclusive = {}
  BY <1>1 DEF SoundLocks
<1>3. s.state \in {"none", "started"} =>
        c.stmt = "first" \/ (c.stmt = "content" /\ c.call.mode = "delete")
  BY <1>2
<1>4. s.state = "started" => c.locks = <<>>
  BY <1>1 DEF SoundLocks
<1>5. SoundLocks(s, c)
  BY <1>1, <1>2, <1>3, <1>4 DEF SoundLocks
<1>6. QED
  BY <1>1, <1>5 DEF Good, Fits

\* lockDocument starts.
LEMMA LockDocumentGood ==
  ASSUME TypeOK, ServerInv, ClientInv, NEW t \in Tx, NEW d \in deployment.docs,
         NEW mode \in {"shared", "exclusive"}, LockDocument(t, d, mode)
  PROVE  Good(t)
<1> DEFINE k == client[t]
           call == [mode |-> mode, doc |-> d, moved |-> FALSE]
           pc == IF CanRestart(t) THEN "turn" ELSE "taking"
           at == IF CanRestart(t) THEN 0 ELSE Len(k.locks) + 1
           c == [k EXCEPT !.pc = pc, !.at = at, !.call = call]
<1>1. /\ k \in Client /\ k.pc = "idle" /\ k.stmt = "first" /\ Len(k.locks) < MaxLocks
      /\ Len(k.locks) \in Nat /\ MaxLocks \in Nat
  BY MongoLocksAssumption DEF TypeOK, LockDocument, ClientInv, SoundCall, Client
<1>2. d \in Doc
  BY MongoLocksAssumption DEF TypeOK, Deployment
<1>3. call \in Call
  BY <1>2 DEF Call
<1>4. at \in 0 .. MaxLocks + 1
  BY <1>1
<1>5. Moves(t, server[t], c)
  BY FitsNow DEF LockDocument, Moves, TypeOK
<1>6. /\ c \in Client /\ c.pc = pc /\ c.call = call /\ c.at = at /\ c.stmt = k.stmt
      /\ c.locks = k.locks /\ c.exclusive = k.exclusive
  <2> HIDE DEF call, at
  <2>1. \A x \in Call, n \in 0 .. MaxLocks + 1, p \in {"turn", "taking"} :
          [k EXCEPT !.pc = p, !.at = n, !.call = x] \in Client
    BY <1>1 DEF Client
  <2>2. pc \in {"turn", "taking"}
    OBVIOUS
  <2>3. c \in Client
    BY <1>3, <1>4, <2>1, <2>2
  <2>4. QED
    BY <1>1, <2>3 DEF Client
<1>7. call.moved = FALSE
  OBVIOUS
<1> HIDE DEF c
<1>8. SoundCall(c)
  BY <1>1, <1>3, <1>6, <1>7 DEF SoundCall
<1>9. Taken(server[t], c) \subseteq Taken(server[t], k)
  BY <1>1, <1>6 DEF Taken
<1>10. QED
  BY <1>1, <1>5, <1>6, <1>8, <1>9, ClientFits

\* A content write starts.
LEMMA WriteGood ==
  ASSUME TypeOK, ServerInv, ClientInv, NEW t \in Tx, NEW d \in deployment.docs,
         NEW op \in {"update", "delete"}, Write(t, d, op)
  PROVE  Good(t)
<1> DEFINE k == client[t]
           call == [mode |-> op, doc |-> d, moved |-> FALSE]
           stmt == IF op = "delete" \/ d \in k.exclusive THEN "content" ELSE "first"
           c == [k EXCEPT !.pc = "writing", !.wrote = TRUE, !.call = call, !.stmt = stmt]
<1>1. k \in Client /\ k.pc = "idle"
  BY DEF TypeOK, Write
<1>2. d \in Doc
  BY MongoLocksAssumption DEF TypeOK, Deployment
<1>3. call \in Call /\ call.mode = op /\ call.doc = d
  BY <1>2 DEF Call
<1>4. Moves(t, server[t], c)
  BY FitsNow DEF Write, Moves, TypeOK
<1>5. /\ c \in Client /\ c.pc = "writing" /\ c.call = call /\ c.stmt = stmt
      /\ c.locks = k.locks /\ c.exclusive = k.exclusive /\ c.wrote
  <2> HIDE DEF call
  <2>1. \A x \in Call, z \in {"first", "content"} :
          [k EXCEPT !.pc = "writing", !.wrote = TRUE, !.call = x, !.stmt = z] \in Client
    BY <1>1 DEF Client
  <2>2. stmt \in {"first", "content"}
    OBVIOUS
  <2>3. c \in Client
    BY <1>3, <2>1, <2>2
  <2>4. QED
    BY <1>1, <2>3 DEF Client
<1> HIDE DEF c
<1>6. SoundCall(c)
  BY <1>3, <1>5 DEF SoundCall
<1>7. Taken(server[t], c) \subseteq Taken(server[t], k)
  BY <1>1, <1>5 DEF Taken
<1>8. \/ c.stmt = "first"
      \/ c.stmt = "content" /\ (c.call.mode = "delete" \/ c.call.doc \in c.exclusive)
  BY <1>3, <1>5
<1>9. QED
  BY <1>1, <1>4, <1>5, <1>6, <1>7, <1>8, ClientFits

\* turn finds no conflicting lock.
LEMMA TakeTurnGood ==
  ASSUME TypeOK, ServerInv, ClientInv, NEW t \in Tx, TakeTurn(t)
  PROVE  Good(t)
<1> DEFINE k == client[t]
<1>1. /\ k \in Client /\ k.pc = "turn" /\ SoundCall(k) /\ server[t] \in Server
      /\ Len(k.locks) \in Nat /\ Len(k.locks) < MaxLocks /\ MaxLocks \in Nat
  BY MongoLocksAssumption DEF TypeOK, TakeTurn, ClientInv, SoundCall, Client
<1>2. k.call \in Call /\ ~k.call.moved /\ k.stmt = "first" /\ Len(k.locks) <= MaxLocks
  BY <1>1 DEF SoundCall
<1>3. ASSUME NEW at \in 1 .. Len(k.locks) + 1, NEW c, c = [k EXCEPT !.pc = "taking", !.at = at]
      PROVE  /\ c \in Client /\ c.pc = "taking" /\ c.call = k.call /\ c.at = at
             /\ c.stmt = "first" /\ c.locks = k.locks /\ c.exclusive = k.exclusive
             /\ SoundCall(c)
  <2>1. at \in 0 .. MaxLocks + 1
    BY <1>1
  <2>2. \A n \in 0 .. MaxLocks + 1 : [k EXCEPT !.pc = "taking", !.at = n] \in Client
    BY <1>1 DEF Client
  <2>3. c \in Client
    BY <1>3, <2>1, <2>2
  <2>4. /\ c.pc = "taking" /\ c.call = k.call /\ c.at = at
        /\ c.stmt = "first" /\ c.locks = k.locks /\ c.exclusive = k.exclusive
    BY <1>1, <1>2, <1>3 DEF Client
  <2>5. SoundCall(c)
    BY <1>1, <1>2, <2>4 DEF SoundCall
  <2>6. QED
    BY <2>3, <2>4, <2>5
<1>4. CASE server[t].state = "none"
  <2> DEFINE s == [server[t] EXCEPT !.state = "started"]
             c == [k EXCEPT !.pc = "taking", !.at = 1]
  <2>1. Moves(t, s, c)
    BY <1>4 DEF TakeTurn, Moves, TypeOK
  <2>2. 1 \in 1 .. Len(k.locks) + 1
    BY <1>1
  <2>3. /\ c \in Client /\ c.pc = "taking" /\ c.at = 1 /\ c.stmt = "first"
        /\ c.locks = k.locks /\ c.exclusive = k.exclusive /\ SoundCall(c)
    BY <1>3, <2>2
  <2>4. server[t].writes = {} /\ k.exclusive = {}
    BY <1>4, ServerFacts DEF SoundView, ClientInv, SoundLocks
  <2>5. s \in Server /\ s.state = "started" /\ s.writes = {}
    BY <1>1, <2>4 DEF Server
  <2> HIDE DEF s, c
  <2>6. SoundLocks(s, c)
    BY <2>3, <2>4, <2>5 DEF SoundLocks
  <2>7. QED
    BY <1>2, <2>1, <2>3, <2>5, <2>6, QuietFits
<1>5. CASE server[t].state # "none"
  <2> DEFINE at == Len(k.locks) + 1
             c == [k EXCEPT !.pc = "taking", !.at = at]
  <2>1. server' = [server EXCEPT ![t] = server[t]]
    BY <1>1, <1>5, FitsNow DEF TakeTurn, TypeOK, Server
  <2>2. Moves(t, server[t], c)
    BY <1>5, <2>1 DEF TakeTurn, Moves, TypeOK
  <2>3. at \in 1 .. Len(k.locks) + 1
    BY <1>1
  <2> HIDE DEF at
  <2>4. /\ c \in Client /\ c.pc = "taking" /\ c.stmt = "first"
        /\ c.locks = k.locks /\ c.exclusive = k.exclusive /\ SoundCall(c)
    BY <1>3, <2>3
  <2> HIDE DEF c
  <2>5. Taken(server[t], c) \subseteq Taken(server[t], k)
    BY <1>1, <2>4 DEF Taken
  <2>6. QED
    BY <1>1, <2>2, <2>4, <2>5, ClientFits
<1>6. QED
  BY <1>4, <1>5

\* The predicate of a lock selects nothing.
LEMMA NotFoundGood ==
  ASSUME TypeOK, ServerInv, ClientInv, NEW t \in Tx, NotFound(t),
         client[t].pc = "taking", server[t].state = "open"
  PROVE  Good(t)
<1> DEFINE k == client[t]
<1>1. k \in Client /\ SoundCall(k) /\ k.at \in 1 .. Len(k.locks) + 1 /\ Len(k.locks) \in Nat
  BY DEF TypeOK, ClientInv, SoundCall, Client
<1>2. ASSUME NEW pc \in {"idle", "failed"}, pc = "failed" \/ k.at > Len(k.locks),
             Moves(t, server[t], Ended(k, pc))
      PROVE  Good(t)
  <2> DEFINE c == Ended(k, pc)
  <2>1. /\ c \in Client /\ c.pc = pc /\ c.stmt = "first" /\ c.locks = k.locks
        /\ c.exclusive = k.exclusive
    BY <1>1, EndedTypes
  <2>2. SoundCall(c)
    BY <2>1 DEF SoundCall
  <2> HIDE DEF c
  <2>3. Taken(server[t], c) \subseteq Taken(server[t], k)
    <3>1. \A i \in DOMAIN k.locks : i \in 1 .. Len(k.locks)
      BY <1>1 DEF Client
    <3>2. QED
      BY <1>1, <1>2, <2>1, <3>1 DEF Taken
  <2>4. Moves(t, server[t], c)
    BY <1>2 DEF c
  <2>5. QED
    BY <2>1, <2>2, <2>3, <2>4, ClientFits
<1>3. CASE k.at <= Len(k.locks)
  <2>1. Moves(t, server[t], Ended(k, "failed"))
    BY <1>1, <1>3, FitsNow, EndedWays DEF NotFound, Moves
  <2>2. QED
    BY <1>2, <2>1
<1>4. CASE k.at > Len(k.locks)
  <2>0. ~(k.at <= Len(k.locks))
    BY <1>1, <1>4
  <2>1. Moves(t, server[t], Ended(k, "idle"))
    BY <1>1, <2>0, FitsNow, EndedWays DEF NotFound, Moves
  <2>2. QED
    BY <1>2, <1>4, <2>1
<1>5. QED
  BY <1>1, <1>3, <1>4

\* The first statement on a snapshot.
LEMMA SnapshotGood ==
  ASSUME TypeOK, ServerInv, ClientInv, NEW t \in Tx, Snapshot(t)
  PROVE  Good(t)
<1> DEFINE k == client[t]
           s == [NoServer EXCEPT !.state = "open", !.docs = docs, !.fences = fences]
           locks == [i \in DOMAIN k.locks |->
                       [mode |-> k.locks[i].mode, doc |-> k.locks[i].doc,
                        moved |-> k.locks[i].moved
                                  \/ ContentOf(k.locks[i].doc) \in server[t].stale]]
           c == [k EXCEPT !.locks = locks]
<1>1. /\ k \in Client /\ k.pc \in {"idle", "taking", "writing"} /\ SoundCall(k)
      /\ server[t].state = "started" /\ SoundLocks(server[t], k)
      /\ Len(k.locks) <= MaxLocks /\ k.locks \in Seq(Call)
  BY DEF TypeOK, Snapshot, ClientInv, Client
<1>2. Moves(t, s, c)
  BY DEF Snapshot, Moves, TypeOK
<1>3. docs \subseteq Doc /\ fences \subseteq FenceRec
  BY MongoLocksAssumption DEF TypeOK, Deployment
<1>4. /\ s \in Server /\ s.state = "open" /\ s.docs = docs /\ s.fences = fences
      /\ s.writes = {} /\ s.stale = {}
  BY <1>3 DEF NoServer, Server
<1>5. locks \in Seq(Call) /\ Len(locks) = Len(k.locks) /\ (k.locks = <<>> => locks = <<>>)
  <2>1. \A b \in BOOLEAN, x \in Call : [mode |-> x.mode, doc |-> x.doc, moved |-> b] \in Call
    BY DEF Call
  <2>2. \A i \in DOMAIN k.locks : k.locks[i] \in Call
    BY <1>1
  <2>3. \A i \in DOMAIN k.locks :
          (k.locks[i].moved \/ ContentOf(k.locks[i].doc) \in server[t].stale) \in BOOLEAN
    OBVIOUS
  <2>4. \A i \in DOMAIN k.locks : locks[i] \in Call
    BY <2>1, <2>2, <2>3
  <2>5. DOMAIN k.locks = 1 .. Len(k.locks) /\ Len(k.locks) \in Nat
    BY <1>1
  <2>6. locks \in [1 .. Len(k.locks) -> Call]
    BY <2>4, <2>5
  <2>7. locks \in Seq(Call)
    BY <2>5, <2>6
  <2>8. Len(locks) = Len(k.locks)
    BY <2>5, <2>6, <2>7
  <2>9. QED
    BY <2>7, <2>8
<1>6. /\ c \in Client /\ c.pc = k.pc /\ c.call = k.call /\ c.at = k.at /\ c.stmt = k.stmt
      /\ c.locks = locks /\ c.exclusive = k.exclusive /\ c.wrote = k.wrote
  <2> HIDE DEF locks
  <2>1. \A l \in Seq(Call) : [k EXCEPT !.locks = l] \in Client
    BY <1>1 DEF Client
  <2>2. c \in Client
    BY <1>5, <2>1
  <2>3. QED
    BY <1>1, <2>2 DEF Client
<1> HIDE DEF s, c, locks
<1>7. SoundCall(c)
  BY <1>1, <1>5, <1>6 DEF SoundCall
<1>8. Taken(s, c) = {}
  <2>1. k.locks = <<>> \/ (k.pc = "taking" /\ k.at = 1)
    BY <1>1 DEF SoundLocks
  <2>2. k.locks = <<>> => DOMAIN c.locks = {}
    BY <1>5, <1>6
  <2>3. \A i \in DOMAIN c.locks : i \in Nat /\ i >= 1
    BY <1>5, <1>6
  <2>4. QED
    BY <1>6, <2>1, <2>2, <2>3 DEF Taken
<1>9. /\ c.exclusive = {}
      /\ c.stmt = "first" \/ (c.stmt = "content" /\ c.call.mode = "delete")
  BY <1>1, <1>6 DEF SoundLocks
<1>10. SoundLocks(s, c)
  BY <1>1, <1>4, <1>6, <1>8, <1>9 DEF SoundLocks
<1>11. SoundView(s, docs, fences) /\ Alone(t, s)
  BY <1>4, FreshView DEF Alone
<1>12. Fits(s, c)
  BY <1>1, <1>4, <1>5, <1>6, <1>7, <1>10, <1>11 DEF Fits
<1>13. QED
  BY <1>2, <1>11, <1>12 DEF Good

-----------------------------------------------------------------------------
(* Statements.                                                              *)

\* A server transaction goes on: it writes more, deletes documents, and deletes
\* the fences of documents whose head it wrote.
Grows(s, x) ==
  /\ s.state = "open" /\ x.state = "open"
  /\ s.writes \subseteq x.writes /\ x.docs \subseteq s.docs
  /\ x.fences \subseteq s.fences \cup x.writes
  /\ \A d \in Doc : FencesOf(s.fences, d) \subseteq x.fences \/ HeadOf(d) \in x.writes

\* What it has written covers no less.
LEMMA GrowsMore ==
  ASSUME NEW s, NEW x, Grows(s, x), NEW d \in Doc
  PROVE  /\ WroteAll(s, d) => WroteAll(x, d)
         /\ Covers(s, d) => Covers(x, d)
BY DEF Grows, WroteAll, Covers, FencesOf

\* The client keeps fitting when its new locks are covered.
LEMMA LocksFit ==
  ASSUME NEW s \in Server, NEW c \in Client, SoundLocks(s, c),
         NEW x \in Server, Grows(s, x), NEW y \in Client, y.pc # "ended",
         \A d \in y.exclusive \ c.exclusive :
           (HeadOf(d) \in x.writes \/ d \notin x.docs) /\ WroteAll(x, d),
         \A d \in Doc : ContentOf(d) \in x.writes \ s.writes =>
           WroteAll(x, d) \/ (y.pc = "writing" /\ y.stmt = "fences" /\ y.call.doc = d),
         \A d \in Doc : c.pc = "writing" /\ c.stmt = "fences" /\ c.call.doc = d => WroteAll(x, d),
         \A i \in Taken(x, y) :
           \/ i \in Taken(s, c) /\ y.locks[i] = c.locks[i]
           \/ ~y.locks[i].moved /\ Covers(x, y.locks[i].doc),
         y.pc = "taking" =>
           /\ y.stmt = "insert" \/ (y.stmt = "rest" /\ LockOf(y).mode = "exclusive")
                => HeadOf(LockOf(y).doc) \in x.writes
           /\ y.stmt = "insert" \/ (y.stmt = "rest" /\ LockOf(y).mode = "shared")
                => y.slot # NoSlot
           /\ y.stmt = "rest" /\ LockOf(y).mode = "shared" => LockOf(y).doc \in x.docs,
         y.pc = "writing" =>
           /\ y.stmt = "rest" => HeadOf(y.call.doc) \in x.writes \/ y.call.doc \notin x.docs
           /\ y.stmt = "content" => y.call.mode = "delete" \/ y.call.doc \in y.exclusive
           /\ y.stmt = "fences" => ContentOf(y.call.doc) \in x.writes
  PROVE  SoundLocks(x, y)
<1>1. s.state = "open" /\ x.state = "open"
  BY DEF Grows
<1>2. ASSUME NEW d \in y.exclusive
      PROVE  (HeadOf(d) \in x.writes \/ d \notin x.docs) /\ WroteAll(x, d)
  <2>1. CASE d \in c.exclusive
    <3>1. (HeadOf(d) \in s.writes \/ d \notin s.docs) /\ WroteAll(s, d) /\ d \in Doc
      BY <1>1, <2>1 DEF SoundLocks, Client
    <3>2. QED
      BY <3>1, GrowsMore DEF Grows
  <2>2. QED
    BY <2>1
<1>3. ASSUME NEW d \in Doc, ContentOf(d) \in x.writes
      PROVE  WroteAll(x, d) \/ (y.pc = "writing" /\ y.stmt = "fences" /\ y.call.doc = d)
  <2>1. CASE ContentOf(d) \in s.writes
    <3>1. WroteAll(s, d) \/ (c.pc = "writing" /\ c.stmt = "fences" /\ c.call.doc = d)
      BY <1>1, <2>1 DEF SoundLocks
    <3>2. QED
      BY <3>1, GrowsMore
  <2>2. QED
    BY <1>3, <2>1
<1>4. ASSUME NEW i \in Taken(x, y)
      PROVE  ~y.locks[i].moved /\ Covers(x, y.locks[i].doc)
  <2>1. CASE i \in Taken(s, c) /\ y.locks[i] = c.locks[i]
    <3>1. ~c.locks[i].moved /\ Covers(s, c.locks[i].doc)
      BY <1>1, <2>1 DEF SoundLocks
    <3>2. c.locks[i].doc \in Doc
      <4>1. c.locks \in Seq(Call) /\ i \in DOMAIN c.locks
        BY <2>1 DEF Taken, Client
      <4>2. c.locks[i] \in Call
        BY <4>1
      <4>3. QED
        BY <4>2 DEF Call
    <3>3. QED
      BY <2>1, <3>1, <3>2, GrowsMore
  <2>2. QED
    BY <2>1
<1>5. QED
  BY <1>1, <1>2, <1>3, <1>4 DEF SoundLocks

\* The lock that a client is taking.
LEMMA LockAt ==
  ASSUME NEW c \in Client, c.call \in Call, c.at \in 1 .. Len(c.locks) + 1
  PROVE  /\ LockOf(c) \in Call
         /\ c.at <= Len(c.locks) => LockOf(c) = c.locks[c.at]
         /\ c.at = Len(c.locks) + 1 => LockOf(c) = c.call
<1>1. c.locks \in Seq(Call) /\ <<c.call>> \in Seq(Call) /\ Len(<<c.call>>) = 1
      /\ Len(c.locks) \in Nat /\ c.at \in Nat
  BY DEF Client
<1>2. CASE c.at <= Len(c.locks)
  <2>1. LockOf(c) = c.locks[c.at]
    BY <1>1, <1>2 DEF LockOf
  <2>2. QED
    BY <1>1, <1>2, <2>1
<1>3. CASE c.at = Len(c.locks) + 1
  <2>1. LockOf(c) = <<c.call>>[1]
    BY <1>1, <1>3 DEF LockOf
  <2>2. QED
    BY <1>1, <1>3, <2>1
<1>4. QED
  BY <1>1, <1>2, <1>3

\* A call, or the restart, goes on after the last statement of a lock.
LEMMA TookFits ==
  ASSUME NEW s \in Server, NEW c \in Client, Len(c.locks) <= MaxLocks,
         SoundCall(c), SoundLocks(s, c), c.pc = "taking",
         NEW x \in Server, Grows(s, x), NEW e \in SUBSET Doc,
         \A d \in e \ c.exclusive :
           (HeadOf(d) \in x.writes \/ d \notin x.docs) /\ WroteAll(x, d),
         \A d \in Doc : ContentOf(d) \in x.writes => ContentOf(d) \in s.writes,
         Covers(x, LockOf(c).doc),
         NEW k \in Client, k.pc = "taking", k.locks = c.locks, k.call = c.call,
         k.at = c.at, k.exclusive = e,
         NEW y, y = TookClient(k)
  PROVE  y \in Client /\ Len(y.locks) <= MaxLocks /\ SoundCall(y) /\ SoundLocks(x, y)
<1>2. /\ c.call \in Call /\ ~c.call.moved /\ c.at \in 1 .. Len(c.locks) + 1
      /\ Len(c.locks) < MaxLocks /\ Len(c.locks) \in Nat /\ MaxLocks \in Nat
      /\ c.locks \in Seq(Call)
  BY MongoLocksAssumption DEF SoundCall, Client
<1>3. /\ y \in Client /\ y.stmt = "first" /\ Len(y.locks) <= MaxLocks
      /\ y.exclusive = e
      /\ \/ /\ c.at = Len(c.locks) + 1
            /\ y.pc = "idle" /\ y.locks = Append(c.locks, c.call)
         \/ /\ c.at <= Len(c.locks) /\ c.locks[c.at].moved /\ y.pc = "failed"
            /\ y.locks = c.locks
         \/ /\ c.at <= Len(c.locks) /\ ~c.locks[c.at].moved /\ y.pc = "taking"
            /\ y.locks = c.locks /\ y.at = c.at + 1 /\ y.call = c.call
  <2>1. k.call \in Call /\ k.at \in 1 .. Len(k.locks) + 1 /\ Len(k.locks) < MaxLocks
    BY <1>2
  <2>2. /\ y \in Client /\ y.stmt = "first" /\ Len(y.locks) <= MaxLocks
        /\ y.exclusive = k.exclusive
        /\ \/ /\ k.at = Len(k.locks) + 1
              /\ y.pc = "idle" /\ y.locks = Append(k.locks, k.call)
           \/ /\ k.at <= Len(k.locks) /\ k.locks[k.at].moved /\ y.pc = "failed"
              /\ y.locks = k.locks
           \/ /\ k.at <= Len(k.locks) /\ ~k.locks[k.at].moved /\ y.pc = "taking"
              /\ y.locks = k.locks /\ y.at = k.at + 1 /\ y.call = k.call
    BY <2>1, TookCases
  <2>3. QED
    BY <2>2
<1>4. SoundCall(y)
  <2>1. CASE y.pc \in {"idle", "failed"}
    BY <1>3, <2>1 DEF SoundCall
  <2>2. CASE /\ c.at <= Len(c.locks) /\ y.pc = "taking"
             /\ y.locks = c.locks /\ y.at = c.at + 1 /\ y.call = c.call
    <3>1. y.at \in 1 .. Len(y.locks) + 1
      BY <1>2, <2>2
    <3>2. Len(y.locks) < MaxLocks /\ ~y.call.moved /\ y.call \in Call
      BY <1>2, <2>2
    <3>3. QED
      BY <1>3, <2>2, <3>1, <3>2 DEF SoundCall
  <2>3. QED
    BY <1>3, <2>1, <2>2
<1>5. ASSUME NEW i \in Taken(x, y)
      PROVE  \/ i \in Taken(s, c) /\ y.locks[i] = c.locks[i]
             \/ ~y.locks[i].moved /\ Covers(x, y.locks[i].doc)
  <2>1. s.state = "open" /\ i \in DOMAIN y.locks /\ y.pc # "failed"
    BY <1>5 DEF Taken, Grows
  <2>2. CASE c.at = Len(c.locks) + 1 /\ y.pc = "idle" /\ y.locks = Append(c.locks, c.call)
    <3>1. CASE i = Len(c.locks) + 1
      <4>1. y.locks[i] = c.call /\ LockOf(c) = c.call
        BY <1>2, <2>2, <3>1, LockAt
      <4>2. QED
        BY <1>2, <4>1
    <3>2. CASE i # Len(c.locks) + 1
      <4>1. i \in DOMAIN c.locks /\ y.locks[i] = c.locks[i] /\ i < c.at
        BY <1>2, <2>1, <2>2, <3>2
      <4>2. QED
        BY <2>1, <4>1 DEF Taken
    <3>3. QED
      BY <3>1, <3>2
  <2>3. CASE /\ c.at <= Len(c.locks) /\ ~c.locks[c.at].moved /\ y.pc = "taking"
             /\ y.locks = c.locks /\ y.at = c.at + 1
    <3>1. i < c.at + 1 /\ i \in Nat
      BY <1>2, <1>5, <2>1, <2>3 DEF Taken
    <3>2. CASE i = c.at
      <4>1. LockOf(c) = c.locks[c.at]
        BY <1>2, <2>3, LockAt
      <4>2. QED
        BY <2>3, <3>2, <4>1
    <3>3. CASE i # c.at
      <4>1. i < c.at
        BY <1>2, <3>1, <3>3
      <4>2. QED
        BY <2>1, <2>3, <4>1 DEF Taken
    <3>4. QED
      BY <3>2, <3>3
  <2>4. QED
    BY <1>3, <2>1, <2>2, <2>3
<1>6. y.pc \notin {"ended", "writing"}
  BY <1>3
<1>7. SoundLocks(x, y)
  BY <1>3, <1>5, <1>6, LocksFit
<1>8. QED
  BY <1>3, <1>4, <1>7

\* A server transaction that has written more records.
LEMMA WroteRecords ==
  ASSUME NEW s \in Server, NEW R \in SUBSET Record
  PROVE  LET x == [s EXCEPT !.writes = s.writes \cup R]
         IN /\ x \in Server /\ x.writes = s.writes \cup R /\ x.state = s.state
            /\ x.docs = s.docs /\ x.fences = s.fences /\ x.stale = s.stale
<1>1. s.writes \cup R \in SUBSET Record
  BY DEF Server
<1>2. \A w \in SUBSET Record : [s EXCEPT !.writes = w] \in Server
  BY DEF Server
<1>3. QED
  BY <1>1, <1>2 DEF Server

\* An accepted statement that writes records it sees.
LEMMA Accepted ==
  ASSUME TypeOK, ServerInv, ClientInv, NEW t \in Tx, NEW R \in SUBSET Record, Accepts(t, R),
         \A d \in Doc :
           /\ HeadOf(d) \in R => d \in server[t].docs
           /\ ContentOf(d) \in R => HeadOf(d) \in R
           /\ \A n \in AnySlot : Fence(d, n) \in R => Fence(d, n) \in server[t].fences,
         NEW x \in Server, x.writes = server[t].writes \cup R, x.state = server[t].state,
         x.docs = server[t].docs, x.fences = server[t].fences, x.stale = server[t].stale
  PROVE  /\ x.state = "open" /\ SoundView(x, docs, fences)
         /\ Alone(t, x) /\ Grows(server[t], x)
<1> DEFINE s == server[t]
<1>1. /\ s \in Server /\ s.state = "open" /\ R \cap s.stale = {}
      /\ \A u \in Tx \ {t} : R \cap server[u].writes = {}
  BY DEF Accepts, Conflict, TypeOK
<1>2. SoundView(s, docs, fences) /\ \A d \in Doc, n \in AnySlot : Fence(d, n) \in fences => d \in docs
  BY ServerFacts
<1>3. x.state = "open" /\ SoundView(x, docs, fences)
  BY <1>1, <1>2, WriteView
<1>4. Alone(t, x)
  BY <1>1, <1>3, ServerFacts DEF Alone
<1>5. Grows(s, x)
  BY <1>1, <1>3 DEF Grows, FencesOf
<1>6. QED
  BY <1>3, <1>4, <1>5

\* The lock and the state of a client between statements.
LEMMA AtLock ==
  ASSUME TypeOK, ClientInv, NEW t \in Tx, client[t].pc = "taking"
  PROVE  /\ client[t] \in Client /\ server[t] \in Server /\ Len(client[t].locks) <= MaxLocks
         /\ SoundCall(client[t]) /\ SoundLocks(server[t], client[t])
         /\ Lock(t) = LockOf(client[t]) /\ Lock(t) \in Call /\ Lock(t).doc \in Doc
<1>1. /\ client[t] \in Client /\ server[t] \in Server /\ Len(client[t].locks) <= MaxLocks
      /\ SoundCall(client[t]) /\ SoundLocks(server[t], client[t])
  BY DEF TypeOK, ClientInv
<1>2. Lock(t) = LockOf(client[t])
  BY DEF Lock, LockOf
<1>3. LockOf(client[t]) \in Call
  BY <1>1, LockAt DEF SoundCall
<1>4. QED
  BY <1>1, <1>2, <1>3 DEF Call

\* The records of one statement are there to be written.
LEMMA HeadRecords ==
  ASSUME TypeOK, NEW t \in Tx, NEW d \in Doc, NEW R,
         R = {} \/ (d \in server[t].docs /\ R = {HeadOf(d)})
  PROVE  /\ R \in SUBSET Record
         /\ \A e \in Doc :
              /\ HeadOf(e) \in R => e \in server[t].docs
              /\ ContentOf(e) \notin R
              /\ \A n \in AnySlot : Fence(e, n) \notin R
BY FenceNames, RecordNames

\* The same for the fences of a document.
LEMMA FenceRecords ==
  ASSUME TypeOK, NEW t \in Tx, NEW d \in Doc, NEW R,
         R = FencesOf(server[t].fences, d)
  PROVE  /\ R \in SUBSET Record
         /\ \A e \in Doc :
              /\ HeadOf(e) \notin R
              /\ ContentOf(e) \notin R
              /\ \A n \in AnySlot : Fence(e, n) \in R => Fence(e, n) \in server[t].fences
<1>1. R \subseteq FenceRec
  BY DEF FencesOf, TypeOK, Server
<1>2. \A f \in R : \E n \in AnySlot : f = Fence(d, n)
  BY SeenFences
<1>3. QED
  BY <1>1, <1>2, FenceNames, RecordNames DEF FencesOf

-----------------------------------------------------------------------------
(* Locks, statement by statement.                                           *)

\* A set of natural numbers has a least one.
LEMMA LeastNat ==
  ASSUME NEW S, S \subseteq Nat, S # {}
  PROVE  \E x \in S : \A y \in S : x <= y
<1>1. PICK x \in S : \A y \in S : ~ (<<y, x>> \in OpToRel(<, Nat))
  BY NatLessThanWellFounded, WFMin
<1>2. \A y \in S : ~(y < x)
  BY <1>1 DEF OpToRel
<1>3. QED
  BY <1>2

\* Among the least used slots there is a first one.
LEMMA LeastUsed ==
  ASSUME NEW n \in Nat \ {0}, Slot = 0 .. n - 1, NEW U \in [Slot -> Nat]
  PROVE  \E o \in Slot : \A p \in Slot : U[o] < U[p] \/ (U[o] = U[p] /\ o <= p)
<1> DEFINE V == {U[p] : p \in Slot}
<1>1. 0 \in Slot /\ Slot \subseteq Nat
  OBVIOUS
<1>2. V \subseteq Nat /\ V # {}
  BY <1>1
<1>3. PICK v \in V : \A w \in V : v <= w
  BY <1>2, LeastNat
<1> DEFINE T == {p \in Slot : U[p] = v}
<1>4. T \subseteq Nat /\ T # {}
  BY <1>1, <1>3
<1>5. PICK o \in T : \A p \in T : o <= p
  BY <1>4, LeastNat
<1>6. ASSUME NEW p \in Slot
      PROVE  U[o] < U[p] \/ (U[o] = U[p] /\ o <= p)
  <2>1. U[o] = v /\ v <= U[p] /\ v \in Nat /\ U[p] \in Nat
    BY <1>2, <1>3, <1>5
  <2>2. U[p] = v => o <= p
    BY <1>5
  <2>3. QED
    BY <2>1, <2>2
<1>7. QED
  BY <1>5, <1>6

\* The slot that fenceSlot chooses is one of the document's.
LEMMA SlotIn == ASSUME TypeOK, NEW t \in Tx PROVE SlotFor(t) \in Slot
<1> DEFINE n == deployment.slots
           f == deployment.first[deployment.storeOf[t]]
           slot(o) == (f + o) % n
           best == CHOOSE o \in Slot :
                     \A p \in Slot : \/ Users(t, slot(o)) < Users(t, slot(p))
                                     \/ Users(t, slot(o)) = Users(t, slot(p)) /\ o <= p
<1>1. n \in Nat \ {0} /\ f \in Nat /\ Slot = 0 .. n - 1
  BY MongoLocksAssumption DEF TypeOK, Deployment, Slot
<1>2. \A o \in Slot : slot(o) \in Slot
  <2>1. \A a \in Nat, m \in Nat \ {0} : a % m \in 0 .. m - 1
    BY Z3
  <2>2. \A o \in Slot : f + o \in Nat
    BY <1>1
  <2> HIDE DEF n, f
  <2>3. QED
    BY <1>1, <2>1, <2>2
<1>3. \A s : Users(t, s) \in Nat
  <2> SUFFICES ASSUME NEW s PROVE Users(t, s) \in Nat
    OBVIOUS
  <2>1. {u \in Peers(t) : client[u].slot = s} \subseteq Tx
    BY DEF Peers
  <2>2. IsFiniteSet({u \in Peers(t) : client[u].slot = s})
    BY <2>1, FS_Subset, MongoLocksAssumption
  <2>3. QED
    BY <2>2, FS_CardinalityType DEF Users
<1>4. best \in Slot
  <2> DEFINE U == [o \in Slot |-> Users(t, slot(o))]
  <2>1. U \in [Slot -> Nat] /\ \A o \in Slot : U[o] = Users(t, slot(o))
    BY <1>3
  <2> HIDE DEF U, slot
  <2>2. PICK o \in Slot : \A p \in Slot : U[o] < U[p] \/ (U[o] = U[p] /\ o <= p)
    BY <1>1, <2>1, LeastUsed
  <2>3. \A p \in Slot : \/ Users(t, slot(o)) < Users(t, slot(p))
                        \/ Users(t, slot(o)) = Users(t, slot(p)) /\ o <= p
    BY <2>1, <2>2
  <2>4. QED
    BY <2>3
<1>5. slot(best) \in Slot
  BY <1>2, <1>4
<1>6. client[t].slot # NoSlot => client[t].slot \in Slot
  BY DEF TypeOK, Client
<1>7. QED
  BY <1>5, <1>6, Zenon DEF SlotFor

\* An exclusive lock writes the head.
LEMMA FenceHeadGood ==
  ASSUME TypeOK, ServerInv, ClientInv, NEW t \in Tx, FenceHead(t)
  PROVE  Good(t)
<1> DEFINE c == client[t]
           s == server[t]
           d == Lock(t).doc
           R == IF d \in s.docs THEN {HeadOf(d)} ELSE {}
<1>1. c.pc = "taking" /\ Lock(t).mode = "exclusive" /\ c.stmt = "first"
  BY DEF FenceHead, Taking
<1>2. /\ c \in Client /\ s \in Server /\ Len(c.locks) <= MaxLocks
      /\ SoundCall(c) /\ SoundLocks(s, c)
      /\ Lock(t) = LockOf(c) /\ Lock(t) \in Call /\ d \in Doc
  BY <1>1, AtLock
<1>3. CASE Conflicted(t)
  BY <1>1, <1>3, ConflictedGood
<1>4. CASE NotFound(t) /\ Accepts(t, R)
  BY <1>1, <1>4, NotFoundGood DEF Accepts
<1>5. CASE /\ Accepts(t, R) /\ R # {}
           /\ server' = [server EXCEPT ![t].writes = @ \cup R]
           /\ client' = [client EXCEPT ![t].stmt = "rest"]
           /\ UNCHANGED <<docs, fences>>
  <2> DEFINE x == [s EXCEPT !.writes = s.writes \cup R]
             y == [c EXCEPT !.stmt = "rest"]
  <2>1. /\ R \in SUBSET Record
        /\ \A e \in Doc : /\ HeadOf(e) \in R => e \in s.docs
                          /\ ContentOf(e) \notin R
                          /\ \A n \in AnySlot : Fence(e, n) \notin R
    <3> HIDE DEF R
    <3>1. R = {} \/ (d \in s.docs /\ R = {HeadOf(d)})
      BY DEF R
    <3>2. QED
      BY <1>2, <3>1, HeadRecords
  <2>2. /\ x \in Server /\ x.writes = s.writes \cup R
        /\ SoundView(x, docs, fences) /\ Alone(t, x) /\ Grows(s, x)
    <3> HIDE DEF R
    <3>1. /\ x \in Server /\ x.writes = s.writes \cup R /\ x.state = s.state
          /\ x.docs = s.docs /\ x.fences = s.fences /\ x.stale = s.stale
      BY <1>2, <2>1, WroteRecords
    <3> HIDE DEF x
    <3>2. QED
      BY <1>5, <2>1, <3>1, Accepted
  <2>3. /\ y \in Client /\ y.stmt = "rest" /\ y.pc = c.pc /\ y.call = c.call
        /\ y.at = c.at /\ y.locks = c.locks /\ y.exclusive = c.exclusive
    BY <1>2, StmtTypes
  <2>4. Moves(t, x, y)
    BY <1>5 DEF Moves, TypeOK
  <2>5. HeadOf(d) \in x.writes
    BY <1>5, <2>2
  <2> HIDE DEF R, x, y
  <2>6. LockOf(y) = Lock(t)
    BY <1>2, <2>3 DEF LockOf
  <2>7. Taken(x, y) \subseteq Taken(s, c)
    BY <2>2, <2>3 DEF Taken, Grows
  <2>8. SoundLocks(x, y)
    BY <1>1, <1>2, <2>1, <2>2, <2>3, <2>5, <2>6, <2>7, LocksFit
  <2>9. SoundCall(y)
    BY <1>1, <1>2, <2>3 DEF SoundCall
  <2>10. QED
    BY <1>2, <2>2, <2>3, <2>4, <2>8, <2>9 DEF Good, Fits
<1>6. QED
  BY <1>3, <1>4, <1>5 DEF FenceHead

\* An exclusive lock writes the shared fences.
LEMMA FenceSharedFencesGood ==
  ASSUME TypeOK, ServerInv, ClientInv, NEW t \in Tx, FenceSharedFences(t)
  PROVE  Good(t)
<1> DEFINE c == client[t]
           s == server[t]
           d == Lock(t).doc
           R == FencesOf(s.fences, d)
           k == [c EXCEPT !.exclusive = c.exclusive \cup {d}]
<1>1. c.pc = "taking" /\ Lock(t).mode = "exclusive" /\ c.stmt = "rest"
  BY DEF FenceSharedFences, Taking
<1>2. /\ c \in Client /\ s \in Server /\ Len(c.locks) <= MaxLocks
      /\ SoundCall(c) /\ SoundLocks(s, c)
      /\ Lock(t) = LockOf(c) /\ Lock(t) \in Call /\ d \in Doc
  BY <1>1, AtLock
<1>3. CASE Conflicted(t)
  BY <1>1, <1>3, ConflictedGood
<1>4. CASE /\ Accepts(t, R)
           /\ server' = [server EXCEPT ![t].writes = @ \cup R]
           /\ Took(t, k)
           /\ UNCHANGED <<docs, fences>>
  <2> DEFINE x == [s EXCEPT !.writes = s.writes \cup R]
             y == TookClient(k)
  <2>1. /\ R \in SUBSET Record
        /\ \A e \in Doc : /\ HeadOf(e) \notin R /\ ContentOf(e) \notin R
                          /\ \A n \in AnySlot : Fence(e, n) \in R => Fence(e, n) \in s.fences
    BY <1>2, FenceRecords
  <2>2. /\ x \in Server /\ x.writes = s.writes \cup R /\ x.fences = s.fences
        /\ SoundView(x, docs, fences) /\ Alone(t, x) /\ Grows(s, x)
    <3> HIDE DEF R
    <3>1. /\ x \in Server /\ x.writes = s.writes \cup R /\ x.state = s.state
          /\ x.docs = s.docs /\ x.fences = s.fences /\ x.stale = s.stale
      BY <1>2, <2>1, WroteRecords
    <3> HIDE DEF x
    <3>2. QED
      BY <1>4, <2>1, <3>1, Accepted
  <2>3. c.exclusive \cup {d} \in SUBSET Doc
    BY <1>2 DEF Client
  <2>4. /\ k \in Client /\ k.pc = "taking" /\ k.locks = c.locks /\ k.call = c.call
        /\ k.at = c.at /\ k.exclusive = c.exclusive \cup {d}
    <3>1. \A e \in SUBSET Doc : [c EXCEPT !.exclusive = e] \in Client
      BY <1>2 DEF Client
    <3>2. k \in Client
      BY <2>3, <3>1
    <3>3. QED
      BY <1>1, <1>2, <3>2 DEF Client
  <2>5. client' = [client EXCEPT ![t] = y]
    <3> HIDE DEF k
    <3>1. QED
      BY <1>4, <2>4, TookEffect
  <2>6. Moves(t, x, y)
    BY <1>4, <2>5 DEF Moves, TypeOK
  <2>7. HeadOf(d) \in x.writes /\ WroteAll(x, d)
    BY <1>1, <1>2, <1>4, <2>2 DEF SoundLocks, Accepts, WroteAll
  <2>8. Covers(x, d)
    BY <2>7 DEF Covers
  <2> HIDE DEF R, x, y, k
  <2>9. y \in Client /\ Len(y.locks) <= MaxLocks /\ SoundCall(y) /\ SoundLocks(x, y)
    <3>1. Covers(x, LockOf(c).doc)
      BY <1>2, <2>8
    <3>2. \A e \in (c.exclusive \cup {d}) \ c.exclusive :
            (HeadOf(e) \in x.writes \/ e \notin x.docs) /\ WroteAll(x, e)
      BY <2>7
    <3>3. \A e \in Doc : ContentOf(e) \in x.writes => ContentOf(e) \in s.writes
      BY <2>1, <2>2
    <3>4. y = TookClient(k)
      BY DEF y
    <3>5. QED
      BY <1>1, <1>2, <2>2, <2>3, <2>4, <3>1, <3>2, <3>3, <3>4, TookFits
  <2>10. QED
    BY <2>2, <2>6, <2>9 DEF Good, Fits
<1>5. QED
  BY <1>3, <1>4 DEF FenceSharedFences

\* Nothing but the client changes when it has taken a lock it covers already.
LEMMA TookSame ==
  ASSUME TypeOK, ServerInv, ClientInv, NEW t \in Tx, client[t].pc = "taking",
         NEW x \in Server, SoundView(x, docs, fences), Alone(t, x), Grows(server[t], x),
         \A d \in Doc : ContentOf(d) \in x.writes => ContentOf(d) \in server[t].writes,
         Covers(x, Lock(t).doc), Took(t, client[t]),
         server' = [server EXCEPT ![t] = x], UNCHANGED <<docs, fences>>
  PROVE  Good(t)
<1> DEFINE c == client[t]
           y == TookClient(c)
<1>1. /\ c \in Client /\ server[t] \in Server /\ Len(c.locks) <= MaxLocks
      /\ SoundCall(c) /\ SoundLocks(server[t], c) /\ Lock(t) = LockOf(c)
  BY AtLock
<1>2. Moves(t, x, y)
  BY <1>1, TookEffect DEF Moves
<1>3. c.exclusive \in SUBSET Doc
  BY <1>1 DEF Client
<1> HIDE DEF y
<1>4. y \in Client /\ Len(y.locks) <= MaxLocks /\ SoundCall(y) /\ SoundLocks(x, y)
  <2>1. y = TookClient(c)
    BY DEF y
  <2>2. QED
    BY <1>1, <1>3, <2>1, TookFits
<1>5. QED
  BY <1>2, <1>4 DEF Good, Fits

\* A shared lock reads the document, or has it already.
LEMMA ReadSharedGood ==
  ASSUME TypeOK, ServerInv, ClientInv, NEW t \in Tx, ReadShared(t)
  PROVE  Good(t)
<1> DEFINE c == client[t]
           s == server[t]
           d == Lock(t).doc
<1>1. c.pc = "taking" /\ Lock(t).mode = "shared" /\ c.stmt = "first"
  BY DEF ReadShared, Taking
<1>2. /\ c \in Client /\ s \in Server /\ Len(c.locks) <= MaxLocks
      /\ SoundCall(c) /\ SoundLocks(s, c)
      /\ Lock(t) = LockOf(c) /\ Lock(t) \in Call /\ d \in Doc
  BY <1>1, AtLock
<1>3. SoundView(s, docs, fences) /\ Alone(t, s) /\ server = [server EXCEPT ![t] = s]
  BY FitsNow DEF Fits
<1>4. s.state = "open" => Grows(s, s)
  BY DEF Grows, FencesOf
<1>5. CASE Conflicted(t)
  BY <1>1, <1>5, ConflictedGood
<1>6. CASE NotFound(t) /\ Accepts(t, {})
  BY <1>1, <1>6, NotFoundGood DEF Accepts
<1>7. CASE /\ Accepts(t, {}) /\ d \in s.docs /\ d \in c.exclusive
           /\ Took(t, c) /\ UNCHANGED <<docs, fences, server>>
  <2>1. s.state = "open"
    BY <1>7 DEF Accepts
  <2>2. Covers(s, d)
    BY <1>2, <1>7, <2>1 DEF SoundLocks, Covers
  <2>3. QED
    BY <1>1, <1>2, <1>3, <1>4, <1>7, <2>1, <2>2, TookSame
<1>8. CASE /\ Accepts(t, {}) /\ d \in s.docs
           /\ client' = [client EXCEPT ![t].stmt = "rest", ![t].slot = SlotFor(t)]
           /\ UNCHANGED <<docs, fences, server>>
  <2> DEFINE slot == SlotFor(t)
             y == [c EXCEPT !.stmt = "rest", !.slot = slot]
  <2>1. slot \in Slot /\ slot # NoSlot
    BY SlotIn, FenceNames, MongoLocksAssumption DEF AnySlot, NoSlot
  <2>2. Moves(t, s, y)
    BY <1>3, <1>8 DEF Moves, TypeOK
  <2> HIDE DEF slot
  <2>3. /\ y \in Client /\ y.stmt = "rest" /\ y.pc = c.pc /\ y.call = c.call
        /\ y.at = c.at /\ y.locks = c.locks /\ y.exclusive = c.exclusive /\ y.slot = slot
    <3>1. \A n \in Slot : [c EXCEPT !.stmt = "rest", !.slot = n] \in Client
      BY <1>2 DEF Client
    <3>2. y \in Client
      BY <2>1, <3>1
    <3>3. QED
      BY <1>2, <3>2 DEF Client
  <2> HIDE DEF y
  <2>4. LockOf(y) = Lock(t)
    BY <1>2, <2>3 DEF LockOf
  <2>5. Taken(s, y) \subseteq Taken(s, c)
    BY <2>3 DEF Taken
  <2>6. Grows(s, s) /\ LockOf(y).doc \in s.docs
    BY <1>4, <1>8, <2>4 DEF Accepts
  <2>7. SoundLocks(s, y)
    BY <1>1, <1>2, <2>1, <2>3, <2>4, <2>5, <2>6, LocksFit
  <2>8. SoundCall(y)
    BY <1>1, <1>2, <2>3 DEF SoundCall
  <2>9. QED
    BY <1>2, <1>3, <2>2, <2>3, <2>7, <2>8 DEF Good, Fits
<1>9. QED
  BY <1>5, <1>6, <1>7, <1>8 DEF ReadShared

\* A shared lock increments its record, or the head's fence to create it.
LEMMA TakeSharedFenceGood ==
  ASSUME TypeOK, ServerInv, ClientInv, NEW t \in Tx, TakeSharedFence(t)
  PROVE  Good(t)
<1> DEFINE c == client[t]
           s == server[t]
           d == Lock(t).doc
           f == Fence(d, c.slot)
<1>1. c.pc = "taking" /\ Lock(t).mode = "shared" /\ c.stmt = "rest"
  BY DEF TakeSharedFence, Taking
<1>2. /\ c \in Client /\ s \in Server /\ Len(c.locks) <= MaxLocks
      /\ SoundCall(c) /\ SoundLocks(s, c)
      /\ Lock(t) = LockOf(c) /\ Lock(t) \in Call /\ d \in Doc
  BY <1>1, AtLock
<1>3. CASE Conflicted(t)
  BY <1>1, <1>3, ConflictedGood
<1>4. CASE /\ f \in s.fences /\ Accepts(t, {f})
           /\ server' = [server EXCEPT ![t].writes = @ \cup {f}]
           /\ Took(t, c) /\ UNCHANGED <<docs, fences>>
  <2> DEFINE R == {f}
             x == [s EXCEPT !.writes = s.writes \cup R]
  <2>1. /\ R \in SUBSET Record
        /\ \A e \in Doc : /\ HeadOf(e) \notin R /\ ContentOf(e) \notin R
                          /\ \A n \in AnySlot : Fence(e, n) \in R => Fence(e, n) \in s.fences
    BY <1>2, <1>4, FenceNames, RecordNames DEF Server
  <2>2. server' = [server EXCEPT ![t] = x]
    BY <1>4 DEF TypeOK
  <2>3. /\ x \in Server /\ x.writes = s.writes \cup R /\ x.fences = s.fences
        /\ SoundView(x, docs, fences) /\ Alone(t, x) /\ Grows(s, x)
    <3>1. Accepts(t, R)
      BY <1>4
    <3> HIDE DEF R
    <3>2. /\ x \in Server /\ x.writes = s.writes \cup R /\ x.state = s.state
          /\ x.docs = s.docs /\ x.fences = s.fences /\ x.stale = s.stale
      BY <1>2, <2>1, WroteRecords
    <3> HIDE DEF x
    <3>3. QED
      BY <2>1, <3>1, <3>2, Accepted
  <2>4. Covers(x, d)
    <3>1. f[2] = d
      BY RecordNames
    <3>2. QED
      BY <1>4, <2>3, <3>1 DEF Covers, FencesOf
  <2>5. \A e \in Doc : ContentOf(e) \in x.writes => ContentOf(e) \in s.writes
    BY <2>1, <2>3
  <2> HIDE DEF x
  <2>6. QED
    BY <1>1, <1>4, <2>2, <2>3, <2>4, <2>5, TookSame
<1>5. CASE /\ Accepts(t, {HeadOf(d)})
           /\ server' = [server EXCEPT ![t].writes = @ \cup {HeadOf(d)}]
           /\ client' = [client EXCEPT ![t].stmt = "insert"]
           /\ UNCHANGED <<docs, fences>>
  <2> DEFINE R == {HeadOf(d)}
             x == [s EXCEPT !.writes = s.writes \cup R]
             y == [c EXCEPT !.stmt = "insert"]
  <2>1. d \in s.docs /\ c.slot # NoSlot
    BY <1>1, <1>2, <1>5 DEF Accepts, SoundLocks
  <2>2. /\ R \in SUBSET Record
        /\ \A e \in Doc : /\ HeadOf(e) \in R => e \in s.docs
                          /\ ContentOf(e) \notin R
                          /\ \A n \in AnySlot : Fence(e, n) \notin R
    BY <1>2, <2>1, FenceNames, RecordNames
  <2>3. /\ x \in Server /\ x.writes = s.writes \cup R
        /\ SoundView(x, docs, fences) /\ Alone(t, x) /\ Grows(s, x)
    <3>1. Accepts(t, R)
      BY <1>5
    <3> HIDE DEF R
    <3>2. /\ x \in Server /\ x.writes = s.writes \cup R /\ x.state = s.state
          /\ x.docs = s.docs /\ x.fences = s.fences /\ x.stale = s.stale
      BY <1>2, <2>2, WroteRecords
    <3> HIDE DEF x
    <3>3. QED
      BY <2>2, <3>1, <3>2, Accepted
  <2>4. /\ y \in Client /\ y.stmt = "insert" /\ y.pc = c.pc /\ y.call = c.call
        /\ y.at = c.at /\ y.locks = c.locks /\ y.exclusive = c.exclusive /\ y.slot = c.slot
    BY <1>2, StmtTypes
  <2>5. Moves(t, x, y)
    BY <1>5 DEF Moves, TypeOK
  <2>6. HeadOf(d) \in x.writes
    BY <2>3
  <2> HIDE DEF R, x, y
  <2>7. LockOf(y) = Lock(t)
    BY <1>2, <2>4 DEF LockOf
  <2>8. Taken(x, y) \subseteq Taken(s, c)
    BY <2>3, <2>4 DEF Taken, Grows
  <2>9. SoundLocks(x, y)
    BY <1>1, <1>2, <2>1, <2>2, <2>3, <2>4, <2>6, <2>7, <2>8, LocksFit
  <2>10. SoundCall(y)
    BY <1>1, <1>2, <2>4 DEF SoundCall
  <2>11. QED
    BY <1>2, <2>3, <2>4, <2>5, <2>9, <2>10 DEF Good, Fits
<1>6. QED
  BY <1>3, <1>4, <1>5 DEF TakeSharedFence

\* The record of a shared lock is created.
LEMMA InsertFenceGood ==
  ASSUME TypeOK, ServerInv, ClientInv, NEW t \in Tx, InsertFence(t)
  PROVE  Good(t)
<1> DEFINE c == client[t]
           s == server[t]
           d == Lock(t).doc
           f == Fence(d, c.slot)
           x == [s EXCEPT !.writes = s.writes \cup {f}, !.fences = s.fences \cup {f}]
<1>1. c.pc = "taking" /\ Lock(t).mode = "shared" /\ c.stmt = "insert"
  BY DEF InsertFence, Taking
<1>2. /\ c \in Client /\ s \in Server /\ Len(c.locks) <= MaxLocks
      /\ SoundCall(c) /\ SoundLocks(s, c)
      /\ Lock(t) = LockOf(c) /\ Lock(t) \in Call /\ d \in Doc
  BY <1>1, AtLock
<1>3. CASE Conflicted(t)
  BY <1>1, <1>3, ConflictedGood
<1>4. CASE /\ Accepts(t, {f})
           /\ server' = [server EXCEPT ![t].writes = @ \cup {f}, ![t].fences = @ \cup {f}]
           /\ Took(t, c) /\ UNCHANGED <<docs, fences>>
  <2>1. /\ s.state = "open" /\ f \notin s.stale
        /\ \A u \in Tx \ {t} : f \notin server[u].writes
    BY <1>4 DEF Accepts, Conflict
  <2>2. HeadOf(d) \in s.writes /\ c.slot \in Slot
    BY <1>1, <1>2, <2>1 DEF SoundLocks, Client
  <2>3. c.slot \in AnySlot /\ f \in FenceRec /\ f \in Record
    BY <1>2, <2>2, FenceNames
  <2>4. /\ x \in Server /\ x.writes = s.writes \cup {f} /\ x.state = "open"
        /\ x.docs = s.docs /\ x.fences = s.fences \cup {f}
        /\ SoundView(x, docs, fences)
    <3>1. /\ x \in Server /\ x.writes = s.writes \cup {f} /\ x.state = "open"
          /\ x.docs = s.docs /\ x.fences = s.fences \cup {f} /\ x.stale = s.stale
      <4> HIDE DEF f
      <4>1. s.writes \cup {f} \in SUBSET Record /\ s.fences \cup {f} \in SUBSET FenceRec
        BY <1>2, <2>3 DEF Server
      <4>2. \A w \in SUBSET Record, g \in SUBSET FenceRec :
              [s EXCEPT !.writes = w, !.fences = g] \in Server
        BY <1>2 DEF Server
      <4>3. QED
        BY <1>2, <2>1, <4>1, <4>2 DEF Server
    <3> HIDE DEF x
    <3>2. SoundView(s, docs, fences)
      BY ServerFacts
    <3>3. SoundView(x, docs, fences)
      BY <1>2, <2>1, <2>2, <2>3, <3>1, <3>2, InsertView
    <3>4. QED
      BY <3>1, <3>3
  <2>5. server' = [server EXCEPT ![t] = x]
    BY <1>4 DEF TypeOK
  <2> HIDE DEF x
  <2>6. Alone(t, x)
    BY <2>1, <2>4, ServerFacts DEF Alone
  <2>7. Grows(s, x)
    BY <2>1, <2>4 DEF Grows, FencesOf
  <2>8. Covers(x, d)
    BY <2>2, <2>4 DEF Covers
  <2>9. \A e \in Doc : ContentOf(e) \in x.writes => ContentOf(e) \in s.writes
    BY <2>4, RecordNames
  <2>10. QED
    BY <1>1, <1>4, <2>4, <2>5, <2>6, <2>7, <2>8, <2>9, TookSame
<1>5. QED
  BY <1>3, <1>4 DEF InsertFence

-----------------------------------------------------------------------------
(* Content writes, statement by statement.                                  *)

\* The client of a write between statements.
LEMMA AtWrite ==
  ASSUME TypeOK, ClientInv, NEW t \in Tx, client[t].pc = "writing"
  PROVE  /\ client[t] \in Client /\ server[t] \in Server /\ Len(client[t].locks) <= MaxLocks
         /\ SoundCall(client[t]) /\ SoundLocks(server[t], client[t])
         /\ client[t].call \in Call /\ client[t].call.doc \in Doc /\ client[t].wrote
BY DEF TypeOK, ClientInv, SoundCall, Call

\* A write ends: the client is idle and its locks are what they were.
LEMMA WroteFits ==
  ASSUME NEW s \in Server, NEW c \in Client, Len(c.locks) <= MaxLocks,
         SoundLocks(s, c), c.pc = "writing",
         NEW x \in Server, Grows(s, x),
         \A d \in Doc : ContentOf(d) \in x.writes \ s.writes => WroteAll(x, d),
         c.stmt = "fences" => WroteAll(x, c.call.doc),
         NEW y, y = Idle(c)
  PROVE  y \in Client /\ Len(y.locks) <= MaxLocks /\ SoundCall(y) /\ SoundLocks(x, y)
<1>1. /\ y \in Client /\ y.pc = "idle" /\ y.stmt = "first" /\ y.locks = c.locks
      /\ y.exclusive = c.exclusive
  BY EndedTypes, EndedWays
<1>2. SoundCall(y)
  BY <1>1 DEF SoundCall
<1>3. Taken(x, y) \subseteq Taken(s, c)
  BY <1>1 DEF Taken, Grows
<1>4. SoundLocks(x, y)
  BY <1>1, <1>3, LocksFit
<1>5. QED
  BY <1>1, <1>2, <1>4

\* lockForWrite writes the head, if there is one.
LEMMA FenceForWriteGood ==
  ASSUME TypeOK, ServerInv, ClientInv, NEW t \in Tx, FenceForWrite(t)
  PROVE  Good(t)
<1> DEFINE c == client[t]
           s == server[t]
           d == c.call.doc
           R == IF d \in s.docs THEN {HeadOf(d)} ELSE {}
           x == [s EXCEPT !.writes = s.writes \cup R]
           y == [c EXCEPT !.stmt = "rest"]
<1>1. c.pc = "writing" /\ c.stmt = "first"
  BY DEF FenceForWrite, Writing
<1>2. /\ c \in Client /\ s \in Server /\ Len(c.locks) <= MaxLocks
      /\ SoundCall(c) /\ SoundLocks(s, c) /\ d \in Doc
  BY <1>1, AtWrite
<1>3. CASE Conflicted(t)
  BY <1>1, <1>3, ConflictedGood
<1>4. CASE /\ Accepts(t, R)
           /\ server' = [server EXCEPT ![t].writes = @ \cup R]
           /\ client' = [client EXCEPT ![t].stmt = "rest"]
           /\ UNCHANGED <<docs, fences>>
  <2>1. /\ R \in SUBSET Record
        /\ \A e \in Doc : /\ HeadOf(e) \in R => e \in s.docs
                          /\ ContentOf(e) \notin R
                          /\ \A n \in AnySlot : Fence(e, n) \notin R
    <3> HIDE DEF R
    <3>1. R = {} \/ (d \in s.docs /\ R = {HeadOf(d)})
      BY DEF R
    <3>2. QED
      BY <1>2, <3>1, HeadRecords
  <2>2. /\ x \in Server /\ x.writes = s.writes \cup R /\ x.docs = s.docs
        /\ SoundView(x, docs, fences) /\ Alone(t, x) /\ Grows(s, x)
    <3> HIDE DEF R
    <3>1. /\ x \in Server /\ x.writes = s.writes \cup R /\ x.state = s.state
          /\ x.docs = s.docs /\ x.fences = s.fences /\ x.stale = s.stale
      BY <1>2, <2>1, WroteRecords
    <3> HIDE DEF x
    <3>2. QED
      BY <1>4, <2>1, <3>1, Accepted
  <2>3. /\ y \in Client /\ y.stmt = "rest" /\ y.pc = c.pc /\ y.call = c.call
        /\ y.at = c.at /\ y.locks = c.locks /\ y.exclusive = c.exclusive
        /\ y.wrote = c.wrote
    BY <1>2, StmtTypes
  <2>4. Moves(t, x, y)
    BY <1>4 DEF Moves, TypeOK
  <2>5. HeadOf(d) \in x.writes \/ d \notin x.docs
    BY <2>2
  <2> HIDE DEF R, x, y
  <2>6. Taken(x, y) \subseteq Taken(s, c)
    BY <2>2, <2>3 DEF Taken, Grows
  <2>7. SoundLocks(x, y)
    BY <1>1, <1>2, <2>1, <2>2, <2>3, <2>5, <2>6, LocksFit
  <2>8. SoundCall(y)
    BY <1>1, <1>2, <2>3 DEF SoundCall
  <2>9. QED
    BY <1>2, <2>2, <2>3, <2>4, <2>7, <2>8 DEF Good, Fits
<1>5. QED
  BY <1>3, <1>4 DEF FenceForWrite

\* lockForWrite writes the shared fences.
LEMMA FenceSharedForWriteGood ==
  ASSUME TypeOK, ServerInv, ClientInv, NEW t \in Tx, FenceSharedForWrite(t)
  PROVE  Good(t)
<1> DEFINE c == client[t]
           s == server[t]
           d == c.call.doc
           R == FencesOf(s.fences, d)
           x == [s EXCEPT !.writes = s.writes \cup R]
           y == [c EXCEPT !.stmt = "content", !.exclusive = c.exclusive \cup {d}]
<1>1. c.pc = "writing" /\ c.stmt = "rest"
  BY DEF FenceSharedForWrite, Writing
<1>2. /\ c \in Client /\ s \in Server /\ Len(c.locks) <= MaxLocks
      /\ SoundCall(c) /\ SoundLocks(s, c) /\ d \in Doc
  BY <1>1, AtWrite
<1>3. CASE Conflicted(t)
  BY <1>1, <1>3, ConflictedGood
<1>4. CASE /\ Accepts(t, R)
           /\ server' = [server EXCEPT ![t].writes = @ \cup R]
           /\ client' = [client EXCEPT ![t].stmt = "content", ![t].exclusive = @ \cup {d}]
           /\ UNCHANGED <<docs, fences>>
  <2>1. /\ R \in SUBSET Record
        /\ \A e \in Doc : /\ HeadOf(e) \notin R /\ ContentOf(e) \notin R
                          /\ \A n \in AnySlot : Fence(e, n) \in R => Fence(e, n) \in s.fences
    BY <1>2, FenceRecords
  <2>2. /\ x \in Server /\ x.writes = s.writes \cup R /\ x.docs = s.docs /\ x.fences = s.fences
        /\ SoundView(x, docs, fences) /\ Alone(t, x) /\ Grows(s, x)
    <3> HIDE DEF R
    <3>1. /\ x \in Server /\ x.writes = s.writes \cup R /\ x.state = s.state
          /\ x.docs = s.docs /\ x.fences = s.fences /\ x.stale = s.stale
      BY <1>2, <2>1, WroteRecords
    <3> HIDE DEF x
    <3>2. QED
      BY <1>4, <2>1, <3>1, Accepted
  <2>3. /\ y \in Client /\ y.stmt = "content" /\ y.pc = c.pc /\ y.call = c.call
        /\ y.at = c.at /\ y.locks = c.locks /\ y.exclusive = c.exclusive \cup {d}
        /\ y.wrote = c.wrote
    <3>1. c.exclusive \cup {d} \in SUBSET Doc
      BY <1>2 DEF Client
    <3>2. \A e \in SUBSET Doc : [c EXCEPT !.stmt = "content", !.exclusive = e] \in Client
      BY <1>2 DEF Client
    <3>3. y \in Client
      BY <3>1, <3>2
    <3>4. QED
      BY <1>2, <3>3 DEF Client
  <2>4. Moves(t, x, y)
    BY <1>4 DEF Moves, TypeOK
  <2>5. (HeadOf(d) \in x.writes \/ d \notin x.docs) /\ WroteAll(x, d)
    BY <1>1, <1>2, <1>4, <2>2 DEF SoundLocks, Accepts, WroteAll
  <2> HIDE DEF R, x, y
  <2>6. Taken(x, y) \subseteq Taken(s, c)
    BY <2>2, <2>3 DEF Taken, Grows
  <2>7. SoundLocks(x, y)
    BY <1>1, <1>2, <2>1, <2>2, <2>3, <2>5, <2>6, LocksFit
  <2>8. SoundCall(y)
    BY <1>1, <1>2, <2>3 DEF SoundCall
  <2>9. QED
    BY <1>2, <2>2, <2>3, <2>4, <2>7, <2>8 DEF Good, Fits
<1>5. QED
  BY <1>3, <1>4 DEF FenceSharedForWrite

\* The content is written or the document deleted.
LEMMA WriteContentGood ==
  ASSUME TypeOK, ServerInv, ClientInv, NEW t \in Tx, WriteContent(t)
  PROVE  Good(t)
<1> DEFINE c == client[t]
           s == server[t]
           d == c.call.doc
           deletes == c.call.mode = "delete"
           exists == d \in s.docs
           R == IF exists THEN {HeadOf(d), ContentOf(d)} ELSE {}
           w == [s EXCEPT !.writes = s.writes \cup R]
           x == IF deletes THEN [w EXCEPT !.docs = w.docs \ {d}] ELSE w
           y == IF exists /\ deletes THEN [c EXCEPT !.stmt = "fences"] ELSE Idle(c)
<1>1. c.pc = "writing" /\ c.stmt = "content"
  BY DEF WriteContent, Writing
<1>2. /\ c \in Client /\ s \in Server /\ Len(c.locks) <= MaxLocks
      /\ SoundCall(c) /\ SoundLocks(s, c) /\ d \in Doc
  BY <1>1, AtWrite
<1>3. CASE Conflicted(t)
  BY <1>1, <1>3, ConflictedGood
<1>4. CASE /\ Accepts(t, R)
           /\ server' = [server EXCEPT ![t].writes = @ \cup R,
                                       ![t].docs = IF deletes THEN @ \ {d} ELSE @]
           /\ client' = [client EXCEPT ![t] = y]
           /\ UNCHANGED <<docs, fences>>
  <2>1. R = {} \/ (exists /\ R = {HeadOf(d), ContentOf(d)})
    OBVIOUS
  <2>2. exists => HeadOf(d) \in R /\ ContentOf(d) \in R
    OBVIOUS
  <2>3. /\ R \in SUBSET Record
        /\ \A e \in Doc : /\ HeadOf(e) \in R => e \in s.docs
                          /\ ContentOf(e) \in R => e = d /\ exists /\ HeadOf(e) \in R
                          /\ \A n \in AnySlot : Fence(e, n) \notin R
    <3> HIDE DEF R
    <3>1. QED
      BY <1>2, <2>1, FenceNames, RecordNames
  <2>4. /\ w \in Server /\ w.writes = s.writes \cup R /\ w.state = "open"
        /\ w.docs = s.docs /\ w.fences = s.fences
        /\ SoundView(w, docs, fences) /\ Alone(t, w) /\ Grows(s, w)
    <3>1. Accepts(t, R)
      BY <1>4
    <3> HIDE DEF R, x, y
    <3>2. /\ w \in Server /\ w.writes = s.writes \cup R /\ w.state = s.state
          /\ w.docs = s.docs /\ w.fences = s.fences /\ w.stale = s.stale
      BY <1>2, <2>3, WroteRecords
    <3> HIDE DEF w
    <3>3. QED
      BY <2>3, <3>1, <3>2, Accepted
  <2>5. server' = [server EXCEPT ![t] = x]
    <3> HIDE DEF R
    <3>1. CASE deletes
      <4>1. x = [s EXCEPT !.writes = s.writes \cup R, !.docs = s.docs \ {d}]
        BY <1>2, <2>4, <3>1 DEF Server
      <4>2. QED
        BY <1>4, <3>1, <4>1 DEF TypeOK
    <3>2. CASE ~deletes
      <4>1. x = [s EXCEPT !.writes = s.writes \cup R, !.docs = s.docs]
        BY <1>2, <2>4, <3>2 DEF Server
      <4>2. QED
        BY <1>4, <3>2, <4>1 DEF TypeOK
    <3>3. QED
      BY <3>1, <3>2
  <2>6. /\ x \in Server /\ x.writes = w.writes /\ x.state = "open"
        /\ x.fences = s.fences /\ x.docs \subseteq s.docs /\ SoundView(x, docs, fences)
    <3> HIDE DEF R, w
    <3>1. CASE ~deletes
      BY <2>4, <3>1
    <3>2. CASE deletes /\ ~exists
      <4>1. w.docs \ {d} = w.docs
        BY <2>4, <3>2
      <4>2. x = w
        BY <2>4, <3>2, <4>1 DEF Server
      <4>3. QED
        BY <2>4, <4>2
    <3>3. CASE deletes /\ exists
      <4>1. HeadOf(d) \in w.writes
        BY <2>2, <2>4, <3>3
      <4>2. x = [w EXCEPT !.docs = w.docs \ {d}]
        BY <3>3
      <4> HIDE DEF x
      <4>3. QED
        BY <1>2, <2>4, <4>1, <4>2, DeleteView
    <3>4. QED
      BY <3>1, <3>2, <3>3
  <2>7. Moves(t, x, y)
    BY <1>4, <2>5 DEF Moves
  <2>8. exists => ContentOf(d) \in x.writes
    BY <2>2, <2>4, <2>6
  <2>9. ~deletes => d \in c.exclusive
    BY <1>1, <1>2, <2>4 DEF SoundLocks, Grows
  <2>10. Alone(t, x) /\ Grows(s, x)
    <3> HIDE DEF R, w, x
    <3>1. QED
      BY <2>4, <2>6 DEF Alone, Grows
  <2> HIDE DEF R, w, x
  <2>11. ~deletes => WroteAll(x, d)
    <3>1. d \in c.exclusive => WroteAll(s, d)
      BY <1>2, <2>10 DEF SoundLocks, Grows
    <3>2. QED
      BY <1>2, <2>9, <2>10, <3>1, GrowsMore
  <2>12. \A e \in Doc : ContentOf(e) \in x.writes \ s.writes => e = d /\ exists
    BY <2>3, <2>4, <2>6
  <2>13. y \in Client /\ Len(y.locks) <= MaxLocks /\ SoundCall(y) /\ SoundLocks(x, y)
    <3>1. CASE exists /\ deletes
      <4>1. /\ y \in Client /\ y.stmt = "fences" /\ y.pc = c.pc /\ y.call = c.call
            /\ y.at = c.at /\ y.locks = c.locks /\ y.exclusive = c.exclusive
            /\ y.wrote = c.wrote
        BY <1>2, <3>1, StmtTypes
      <4> HIDE DEF y
      <4>2. Taken(x, y) \subseteq Taken(s, c)
        BY <2>10, <4>1 DEF Taken, Grows
      <4>3. SoundLocks(x, y)
        BY <1>1, <1>2, <2>6, <2>8, <2>10, <2>12, <3>1, <4>1, <4>2, LocksFit
      <4>4. SoundCall(y)
        BY <1>1, <1>2, <4>1 DEF SoundCall
      <4>5. QED
        BY <1>2, <4>1, <4>3, <4>4
    <3>2. CASE ~(exists /\ deletes)
      <4>1. y = Idle(c)
        BY <3>2
      <4>2. \A e \in Doc : ContentOf(e) \in x.writes \ s.writes => WroteAll(x, e)
        BY <2>11, <2>12, <3>2
      <4> HIDE DEF y
      <4>3. QED
        BY <1>1, <1>2, <2>6, <2>10, <4>1, <4>2, WroteFits
    <3>3. QED
      BY <3>1, <3>2
  <2>14. QED
    BY <2>6, <2>7, <2>10, <2>13 DEF Good, Fits
<1>5. QED
  BY <1>3, <1>4 DEF WriteContent

\* The shared fences of a deleted document are deleted.
LEMMA DeleteSharedFencesGood ==
  ASSUME TypeOK, ServerInv, ClientInv, NEW t \in Tx, DeleteSharedFences(t)
  PROVE  Good(t)
<1> DEFINE c == client[t]
           s == server[t]
           d == c.call.doc
           R == FencesOf(s.fences, d)
           w == [s EXCEPT !.writes = s.writes \cup R]
           x == [w EXCEPT !.fences = w.fences \ FencesOf(w.fences, d)]
           y == Idle(c)
<1>1. c.pc = "writing" /\ c.stmt = "fences"
  BY DEF DeleteSharedFences, Writing
<1>2. /\ c \in Client /\ s \in Server /\ Len(c.locks) <= MaxLocks
      /\ SoundCall(c) /\ SoundLocks(s, c) /\ d \in Doc
  BY <1>1, AtWrite
<1>3. CASE Conflicted(t)
  BY <1>1, <1>3, ConflictedGood
<1>4. CASE /\ Accepts(t, R)
           /\ server' = [server EXCEPT ![t].writes = @ \cup R, ![t].fences = @ \ R]
           /\ client' = [client EXCEPT ![t] = Idle(@)]
           /\ UNCHANGED <<docs, fences>>
  <2>1. /\ R \in SUBSET Record
        /\ \A e \in Doc : /\ HeadOf(e) \notin R /\ ContentOf(e) \notin R
                          /\ \A n \in AnySlot : Fence(e, n) \in R => Fence(e, n) \in s.fences
    BY <1>2, FenceRecords
  <2>2. /\ w \in Server /\ w.writes = s.writes \cup R /\ w.state = "open"
        /\ w.docs = s.docs /\ w.fences = s.fences
        /\ SoundView(w, docs, fences) /\ Alone(t, w) /\ Grows(s, w)
    <3>1. Accepts(t, R)
      BY <1>4
    <3> HIDE DEF R, x, y
    <3>2. /\ w \in Server /\ w.writes = s.writes \cup R /\ w.state = s.state
          /\ w.docs = s.docs /\ w.fences = s.fences /\ w.stale = s.stale
      BY <1>2, <2>1, WroteRecords
    <3> HIDE DEF w
    <3>3. QED
      BY <2>1, <3>1, <3>2, Accepted
  <2>3. HeadOf(d) \in w.writes
    <3>1. s.state = "open"
      BY <2>2 DEF Grows
    <3>2. ContentOf(d) \in s.writes
      BY <1>1, <1>2, <3>1 DEF SoundLocks
    <3>3. SoundView(s, docs, fences)
      BY ServerFacts
    <3>4. HeadOf(d) \in s.writes
      BY <1>2, <3>2, <3>3 DEF SoundView
    <3>5. QED
      BY <2>2, <3>4
  <2>4. FencesOf(w.fences, d) \subseteq w.writes
    BY <2>2
  <2>5. server' = [server EXCEPT ![t] = x] /\ client' = [client EXCEPT ![t] = y]
    <3>1. x = [s EXCEPT !.writes = s.writes \cup R, !.fences = s.fences \ R]
      <4>1. FencesOf(w.fences, d) = R
        BY <2>2
      <4> HIDE DEF R
      <4>2. QED
        BY <1>2, <2>2, <4>1 DEF Server
    <3> HIDE DEF R, x
    <3>2. QED
      BY <1>4, <3>1 DEF TypeOK
  <2>6. /\ x \in Server /\ x.writes = w.writes /\ x.state = "open"
        /\ x.docs = w.docs /\ x.fences = w.fences \ FencesOf(w.fences, d)
        /\ SoundView(x, docs, fences)
    <3> HIDE DEF R, w
    <3>1. x = [w EXCEPT !.fences = w.fences \ FencesOf(w.fences, d)]
      OBVIOUS
    <3> HIDE DEF x
    <3>2. QED
      BY <1>2, <2>2, <2>3, <2>4, <3>1, DeleteFencesView
  <2> HIDE DEF w, x
  <2>7. Grows(s, x) /\ Alone(t, x)
    BY <2>2, <2>3, <2>6 DEF Grows, Alone, FencesOf
  <2>8. WroteAll(x, d)
    BY <2>6 DEF WroteAll, FencesOf
  <2>9. \A e \in Doc : ContentOf(e) \notin x.writes \ s.writes
    <3> HIDE DEF R
    <3>1. QED
      BY <2>1, <2>2, <2>6
  <2>10. y \in Client /\ Len(y.locks) <= MaxLocks /\ SoundCall(y) /\ SoundLocks(x, y)
    <3>1. y = Idle(c)
      OBVIOUS
    <3> HIDE DEF y, R
    <3>2. QED
      BY <1>1, <1>2, <2>6, <2>7, <2>8, <2>9, <3>1, WroteFits
  <2>11. Moves(t, x, y)
    BY <1>4, <2>5 DEF Moves
  <2>12. QED
    BY <2>6, <2>7, <2>10, <2>11 DEF Good, Fits
<1>5. QED
  BY <1>3, <1>4 DEF DeleteSharedFences

-----------------------------------------------------------------------------
(* Commits of the server transactions.                                      *)

\* Conflicts to come do not disturb what a transaction has locked.
LEMMA StaleLocks ==
  ASSUME NEW s \in Server, NEW c \in Client, SoundLocks(s, c), c.pc # "ended",
         NEW x \in Server, x.state = s.state, x.docs = s.docs, x.fences = s.fences,
         x.writes = s.writes
  PROVE  SoundLocks(x, c)
<1>1. Taken(x, c) = Taken(s, c)
  BY DEF Taken
<1>2. \A d : WroteAll(x, d) = WroteAll(s, d) /\ Covers(x, d) = Covers(s, d)
  BY DEF WroteAll, Covers
<1>3. QED
  BY <1>1, <1>2 DEF SoundLocks

\* A commit keeps what is known of the transactions.
LEMMA CommitStep ==
  ASSUME TypeOK, ServerInv, ClientInv, deployment' = deployment, NEW t \in Tx, Commit(t)
  PROVE  /\ docs' \subseteq deployment'.docs /\ fences' \subseteq FenceRec'
         /\ server' \in [Tx -> Server'] /\ client' \in [Tx -> Client']
         /\ \A u \in Tx : Len(client'[u].locks) <= MaxLocks
         /\ ServerInv' /\ ClientInv'
         /\ \A u \in Tx \ {t} : server'[u].state = server[u].state
         /\ server'[t] = NoServer
<1> DEFINE w == server[t].writes
           stale(u) == server[u].stale \cup
                         (IF server[u].state = "open" THEN w ELSE w \cap LockedBodies(u))
           x(u) == [server[u] EXCEPT !.stale = stale(u)]
<1>1. /\ docs' = docs \ Deleted(t)
      /\ fences' = (fences \cup (FenceRec \cap w)) \ Removed(t)
      /\ client' = [client EXCEPT ![t] = NoClient]
      /\ server' = [u \in Tx |-> IF u = t THEN NoServer ELSE x(u)]
  BY DEF Commit, End
<1>2. FenceRec' = FenceRec /\ Server' = Server /\ Client' = Client
  BY SameTypes
<1>3. docs' \subseteq deployment'.docs /\ fences' \subseteq FenceRec'
  BY <1>1, <1>2 DEF TypeOK
<1>4. /\ client'[t] = NoClient /\ \A u \in Tx \ {t} : client'[u] = client[u]
      /\ server'[t] = NoServer /\ \A u \in Tx \ {t} : server'[u] = x(u)
      /\ client' \in [Tx -> Client]
  BY <1>1, NoneTypes DEF TypeOK
<1>5. ASSUME NEW u \in Tx \ {t}
      PROVE  /\ server'[u] \in Server /\ server'[u].state = server[u].state
             /\ server'[u].docs = server[u].docs /\ server'[u].fences = server[u].fences
             /\ server'[u].writes = server[u].writes
             /\ SoundView(server'[u], docs', fences')
             /\ SoundLocks(server'[u], client'[u])
  <2>1. server[u] \in Server /\ w \in SUBSET Record
    BY DEF TypeOK, Server
  <2>2. stale(u) \in SUBSET Record
    BY <2>1 DEF Server
  <2>3. /\ x(u) \in Server /\ x(u).state = server[u].state
        /\ x(u).docs = server[u].docs /\ x(u).fences = server[u].fences
        /\ x(u).writes = server[u].writes
    <3>1. \A z \in SUBSET Record : [server[u] EXCEPT !.stale = z] \in Server
      BY <2>1 DEF Server
    <3> HIDE DEF stale
    <3>2. x(u) \in Server
      BY <2>2, <3>1
    <3>3. QED
      BY <2>1, <3>2 DEF Server
  <2>4. SoundView(x(u), docs', fences')
    <3>1. CASE server[u].state = "open"
      <4>1. stale(u) = server[u].stale \cup server[t].writes
        BY <3>1
      <4>2. x(u) = [server[u] EXCEPT !.stale = server[u].stale \cup server[t].writes]
        BY <4>1
      <4> HIDE DEF x
      <4>3. QED
        BY <3>1, <4>2, CommitView
    <3>2. CASE server[u].state # "open"
      <4>1. server[u].writes = {}
        BY <3>2, ServerFacts DEF SoundView
      <4> HIDE DEF x
      <4>2. QED
        BY <2>3, <3>2, <4>1, ClosedView
    <3>3. QED
      BY <3>1, <3>2
  <2>5. SoundLocks(x(u), client[u])
    <3>1. SoundLocks(server[u], client[u]) /\ client[u] \in Client /\ SoundCall(client[u])
      BY DEF TypeOK, ClientInv
    <3>2. CASE client[u].pc # "ended"
      <4> HIDE DEF x
      <4>1. QED
        BY <2>1, <2>3, <3>1, <3>2, StaleLocks
    <3>3. CASE client[u].pc = "ended"
      <4>1. server[u] = NoServer /\ client[u] = NoClient
        BY <3>1, <3>3 DEF SoundLocks, SoundCall
      <4>2. server[u].state # "open" /\ server[u].stale = {} /\ LockedBodies(u) = {}
        BY <4>1 DEF NoServer, NoClient, LockedBodies
      <4>3. stale(u) = {}
        BY <4>2
      <4> HIDE DEF stale
      <4>4. x(u) = NoServer
        BY <4>1, <4>3 DEF NoServer
      <4>5. QED
        BY <4>1, <4>4, NothingFits
    <3>4. QED
      BY <3>2, <3>3
  <2> HIDE DEF x
  <2>6. QED
    BY <1>4, <2>3, <2>4, <2>5
<1>6. server' \in [Tx -> Server]
  <2>1. \A u \in Tx : server'[u] \in Server
    BY <1>4, <1>5, NoneTypes
  <2>2. server' = [u \in Tx |-> server'[u]]
    BY <1>1
  <2>3. QED
    BY <2>1, <2>2
<1>7. \A u \in Tx : Len(client'[u].locks) <= MaxLocks
  BY <1>4, NothingFits DEF TypeOK
<1>8. ServerInv'
  <2>1. \A u \in Tx : SoundView(server'[u], docs', fences')
    <3>1. SoundView(NoServer, docs', fences')
      BY NothingFits, NoneTypes, ClosedView
    <3>2. QED
      BY <1>4, <1>5, <3>1
  <2>2. ASSUME NEW u \in Tx, NEW v \in Tx, u # v
        PROVE  server'[u].writes \cap server'[v].writes = {}
    <3>1. CASE u = t \/ v = t
      BY <1>4, <3>1, NothingFits
    <3>2. CASE u # t /\ v # t
      BY <1>5, <2>2, <3>2, ServerFacts
    <3>3. QED
      BY <3>1, <3>2
  <2>3. \A d \in Doc, n \in AnySlot : Fence(d, n) \in fences' => d \in docs'
    BY CommitFences
  <2>4. QED
    BY <2>1, <2>2, <2>3 DEF ServerInv
<1>9. ClientInv'
  <2>1. \A u \in Tx : SoundCall(client'[u]) /\ SoundLocks(server'[u], client'[u])
    BY <1>4, <1>5, NothingFits DEF ClientInv
  <2>2. QED
    BY <2>1 DEF ClientInv
<1>10. QED
  BY <1>2, <1>3, <1>4, <1>5, <1>6, <1>7, <1>8, <1>9

-----------------------------------------------------------------------------
(* The line of open transactions, and the lock queue.                       *)

\* What is left of a sequence without one element.
LEMMA RemoveAtProperties ==
  ASSUME NEW S, NEW q \in Seq(S), NEW i \in 1 .. Len(q), NEW r, r = RemoveAt(q, i)
  PROVE  /\ r \in Seq(S) /\ Len(r) = Len(q) - 1
         /\ \A j \in 1 .. Len(r) : r[j] = IF j < i THEN q[j] ELSE q[j + 1]
<1> DEFINE a == SubSeq(q, 1, i - 1)
           b == SubSeq(q, i + 1, Len(q))
<1>1. Len(q) \in Nat /\ i \in Nat /\ i >= 1 /\ i <= Len(q)
  OBVIOUS
<1>2. a \in Seq(S) /\ Len(a) = i - 1 /\ \A j \in 1 .. i - 1 : a[j] = q[j]
  <2>1. \A j \in 1 .. i - 1 : q[j] \in S
    BY <1>1
  <2>2. QED
    BY <1>1, <2>1
<1>3. b \in Seq(S) /\ Len(b) = Len(q) - i /\ \A j \in 1 .. Len(q) - i : b[j] = q[i + j]
  <2>1. \A j \in i + 1 .. Len(q) : q[j] \in S
    BY <1>1
  <2>2. QED
    BY <1>1, <2>1
<1>4. r = a \o b
  BY DEF RemoveAt
<1> HIDE DEF a, b
<1>5. r \in Seq(S) /\ Len(r) = Len(q) - 1
  BY <1>1, <1>2, <1>3, <1>4
<1>6. ASSUME NEW j \in 1 .. Len(r)
      PROVE  r[j] = IF j < i THEN q[j] ELSE q[j + 1]
  <2>1. r[j] = IF j <= Len(a) THEN a[j] ELSE b[j - Len(a)]
    BY <1>2, <1>3, <1>4
  <2>2. CASE j < i
    BY <1>1, <1>2, <1>5, <2>1, <2>2
  <2>3. CASE ~(j < i)
    <3>1. j - (i - 1) \in 1 .. Len(q) - i /\ i + (j - (i - 1)) = j + 1
      BY <1>1, <1>5, <2>3
    <3>2. r[j] = b[j - (i - 1)]
      BY <1>1, <1>2, <1>5, <2>1, <2>3
    <3>3. QED
      BY <1>3, <2>3, <3>1, <3>2
  <2>4. QED
    BY <2>2, <2>3
<1>7. QED
  BY <1>5, <1>6

\* Everybody in line is there once.
Once(q) == \A i, j \in DOMAIN q : q[i] = q[j] => i = j
InLine(q, t) == \E i \in DOMAIN q : q[i] = t

\* A new transaction is the youngest.
LEMMA LineGrows ==
  ASSUME NEW q \in Seq(Tx), NEW t \in Tx, Once(q), ~InLine(q, t)
  PROVE  LET r == Append(q, t)
         IN  /\ r \in Seq(Tx) /\ Once(r) /\ InLine(r, t)
             /\ \A u \in Tx \ {t} : InLine(r, u) <=> InLine(q, u)
<1> DEFINE r == Append(q, t)
<1>1. /\ r \in Seq(Tx) /\ DOMAIN r = 1 .. Len(q) + 1 /\ DOMAIN q = 1 .. Len(q)
      /\ Len(q) \in Nat /\ r[Len(q) + 1] = t /\ \A i \in 1 .. Len(q) : r[i] = q[i]
  OBVIOUS
<1> HIDE DEF r
<1>2. Once(r)
  BY <1>1 DEF Once, InLine
<1>3. InLine(r, t) /\ \A u \in Tx \ {t} : InLine(r, u) <=> InLine(q, u)
  BY <1>1 DEF InLine
<1>4. QED
  BY <1>1, <1>2, <1>3 DEF r

\* A transaction that is over leaves.
LEMMA LineShrinks ==
  ASSUME NEW q \in Seq(Tx), NEW t \in Tx, Once(q), InLine(q, t)
  PROVE  LET r == RemoveAt(q, CHOOSE i \in DOMAIN q : q[i] = t)
         IN  /\ r \in Seq(Tx) /\ Once(r) /\ ~InLine(r, t)
             /\ \A u \in Tx \ {t} : InLine(r, u) <=> InLine(q, u)
<1> DEFINE k == CHOOSE i \in DOMAIN q : q[i] = t
           r == RemoveAt(q, k)
<1>1. k \in DOMAIN q /\ q[k] = t
  BY DEF InLine
<1>2. DOMAIN q = 1 .. Len(q) /\ Len(q) \in Nat
  OBVIOUS
<1> HIDE DEF k
<1>3. /\ r \in Seq(Tx) /\ Len(r) = Len(q) - 1
      /\ \A j \in 1 .. Len(r) : r[j] = IF j < k THEN q[j] ELSE q[j + 1]
  <2>1. r = RemoveAt(q, k) /\ k \in 1 .. Len(q)
    BY <1>1, <1>2
  <2> HIDE DEF r
  <2>2. QED
    BY <2>1, RemoveAtProperties
<1> HIDE DEF r
<1>4. DOMAIN r = 1 .. Len(q) - 1
  BY <1>3
<1> DEFINE to(j) == IF j < k THEN j ELSE j + 1
<1>5. \A j \in DOMAIN r : to(j) \in DOMAIN q /\ to(j) # k /\ r[j] = q[to(j)]
  BY <1>1, <1>2, <1>3, <1>4
<1>6. Once(r)
  <2>1. \A i, j \in DOMAIN r : to(i) = to(j) => i = j
    BY <1>1, <1>2, <1>4
  <2> HIDE DEF to
  <2>2. QED
    BY <1>5, <2>1 DEF Once
<1>7. ~InLine(r, t)
  <2> HIDE DEF to
  <2>1. QED
    BY <1>1, <1>5 DEF Once, InLine
<1>8. ASSUME NEW u \in Tx \ {t}
      PROVE  InLine(r, u) <=> InLine(q, u)
  <2>1. InLine(r, u) => InLine(q, u)
    <3> HIDE DEF to
    <3>1. QED
      BY <1>5 DEF InLine
  <2>2. ASSUME NEW j \in DOMAIN q, q[j] = u
        PROVE  InLine(r, u)
    <3>1. j # k
      BY <1>1, <2>2
    <3>2. CASE j < k
      <4>1. j \in DOMAIN r /\ r[j] = q[j]
        BY <1>1, <1>2, <1>3, <1>4, <3>2
      <4>2. QED
        BY <2>2, <4>1 DEF InLine
    <3>3. CASE j > k
      <4>1. j - 1 \in DOMAIN r /\ r[j - 1] = q[j]
        BY <1>1, <1>2, <1>3, <1>4, <3>3
      <4>2. QED
        BY <2>2, <4>1 DEF InLine
    <3>4. QED
      BY <1>1, <1>2, <3>1, <3>2, <3>3
  <2>3. QED
    BY <2>1, <2>2 DEF InLine
<1>9. QED
  BY <1>3, <1>6, <1>7, <1>8 DEF r, k

\* What a step of t, other than its beginning and its end, may do in the queue.
Queues(t) ==
  /\ client'[t].pc = "ended" <=> client[t].pc = "ended"
  /\ line' = line
  /\ asking' \subseteq asking \cup {t}
  /\ \/ hold' = hold /\ (server'[t].state = "none" => server[t].state = "none")
     \/ hold' = [hold EXCEPT ![t] = HoldsWait(t)]
     \/ /\ server'[t].state # "none"
        /\ \E d \in Doc, mode \in {"shared", "exclusive"} :
             hold' = [hold EXCEPT ![t] = Held(t, d, mode)]
     \/ server' = server /\ \E d \in Doc : Holds(t, d) /\ hold' = [hold EXCEPT ![t][d].lapsed = TRUE]

\* A conflict.
LEMMA ConflictedQueues ==
  ASSUME TypeOK, NEW t \in Tx, Conflicted(t), client[t].pc \in {"taking", "writing"}
  PROVE  Queues(t)
<1>1. CASE CanRestart(t)
  <2>1. Suspend(t)
    BY <1>1 DEF Conflicted
  <2>2. client'[t].pc = "turn"
    BY <2>1 DEF Suspend, TypeOK, Client
  <2>3. QED
    BY <2>1, <2>2 DEF Suspend, Queues
<1>2. CASE ~CanRestart(t)
  <2>1. client'[t] = Failed(client[t]) /\ client[t] \in Client
    BY <1>2 DEF Conflicted, TypeOK
  <2>2. client'[t].pc = "failed"
    BY <2>1, EndedTypes, EndedWays
  <2>3. server'[t].state = "aborted"
    BY <1>2 DEF Conflicted, TypeOK, NoServer
  <2>4. QED
    BY <1>2, <2>2, <2>3 DEF Conflicted, Queues
<1>3. QED
  BY <1>1, <1>2

\* A call that ends in one way or the other.
LEMMA EndedQueues ==
  ASSUME TypeOK, NEW t \in Tx, client[t].pc # "ended", NEW pc \in {"idle", "failed"},
         client' = [client EXCEPT ![t] = Ended(client[t], pc)],
         asking' \subseteq asking, UNCHANGED <<hold, line>>,
         server'[t].state = server[t].state
  PROVE  Queues(t)
<1>1. client'[t] = Ended(client[t], pc) /\ client[t] \in Client
  BY DEF TypeOK
<1>2. client'[t].pc = pc
  BY <1>1, EndedTypes
<1>3. QED
  BY <1>2 DEF Queues

\* A lock that is taken.
LEMMA TookQueues ==
  ASSUME TypeOK, NEW t \in Tx, client[t].pc # "ended",
         NEW c \in Client, c.pc = "taking", SoundCall(c), Took(t, c),
         line' = line, server'[t].state # "none",
         hold' = hold \/ \E d \in Doc, mode \in {"shared", "exclusive"} :
                           hold' = [hold EXCEPT ![t] = Held(t, d, mode)]
  PROVE  Queues(t)
<1>1. client'[t] = TookClient(c) /\ asking' \subseteq asking
  BY TookEffect DEF TypeOK
<1>2. c.call \in Call /\ c.at \in 1 .. Len(c.locks) + 1 /\ Len(c.locks) < MaxLocks
  BY DEF SoundCall
<1>3. client'[t].pc # "ended"
  <2>1. PICK x : x = TookClient(c)
    OBVIOUS
  <2>2. x.pc # "ended"
    BY <1>2, <2>1, TookCases
  <2>3. QED
    BY <1>1, <2>1, <2>2
<1>4. QED
  BY <1>1, <1>3 DEF Queues

\* The steps of a transaction between its beginning and its end.
Middle(t) ==
  \/ \E d \in deployment.docs :
       \/ \E mode \in {"shared", "exclusive"} : LockDocument(t, d, mode)
       \/ \E op \in {"update", "delete"} : Write(t, d, op)
       \/ Lapse(t, d)
  \/ TakeTurn(t) \/ AwaitTurn(t) \/ WaitEnds(t) \/ Snapshot(t) \/ ServerAborts(t)
  \/ Statement(t)

\* They keep ServerInv and ClientInv.
LEMMA MiddleGood ==
  ASSUME TypeOK, ServerInv, ClientInv, NEW t \in Tx, Middle(t)
  PROVE  Good(t)
<1>1. ASSUME NEW d \in deployment.docs, NEW mode \in {"shared", "exclusive"},
             LockDocument(t, d, mode)
      PROVE  Good(t)
  BY <1>1, LockDocumentGood
<1>2. ASSUME NEW d \in deployment.docs, NEW op \in {"update", "delete"}, Write(t, d, op)
      PROVE  Good(t)
  BY <1>2, WriteGood
<1>3. ASSUME NEW d \in deployment.docs, Lapse(t, d)
      PROVE  Good(t)
  <2>1. Moves(t, server[t], client[t])
    BY <1>3, FitsNow DEF Lapse, Moves
  <2>2. QED
    BY <2>1, FitsNow DEF Good
<1>4. CASE Statement(t)
  BY <1>4, FenceHeadGood, FenceSharedFencesGood, ReadSharedGood, TakeSharedFenceGood,
     InsertFenceGood, FenceForWriteGood, FenceSharedForWriteGood, WriteContentGood,
     DeleteSharedFencesGood DEF Statement
<1>5. QED
  BY <1>1, <1>2, <1>3, <1>4, TakeTurnGood, AwaitTurnGood, WaitEndsGood, SnapshotGood,
     ServerAbortsGood DEF Middle

\* A lock's statements in the queue.
LEMMA LockQueues ==
  ASSUME TypeOK, ServerInv, ClientInv, NEW t \in Tx,
         FenceHead(t) \/ FenceSharedFences(t) \/ ReadShared(t) \/ TakeSharedFence(t)
           \/ InsertFence(t)
  PROVE  Queues(t)
<1> DEFINE c == client[t]
           d == Lock(t).doc
<1>1. c.pc = "taking"
  BY DEF FenceHead, FenceSharedFences, ReadShared, TakeSharedFence, InsertFence, Taking
<1>2. /\ c \in Client /\ server[t] \in Server /\ SoundCall(c) /\ d \in Doc
      /\ server \in [Tx -> Server] /\ client \in [Tx -> Client]
  BY <1>1, AtLock DEF TypeOK
<1>3. CASE Conflicted(t)
  BY <1>1, <1>3, ConflictedQueues
<1>4. CASE NotFound(t)
  <2>1. PICK pc \in {"idle", "failed"} : client' = [client EXCEPT ![t] = Ended(c, pc)]
    BY <1>2, <1>4, EndedWays DEF NotFound
  <2>2. /\ asking' \subseteq asking /\ server'[t].state = server[t].state
        /\ hold' = hold /\ line' = line
    BY <1>4 DEF NotFound
  <2>3. QED
    BY <1>1, <2>1, <2>2, EndedQueues
<1>5. CASE /\ client' = [client EXCEPT ![t].stmt = "rest"] \/ client' = [client EXCEPT ![t].stmt = "insert"]
              \/ client' = [client EXCEPT ![t].stmt = "rest", ![t].slot = SlotFor(t)]
           /\ server'[t].state = server[t].state
           /\ UNCHANGED <<hold, asking, line>>
  <2>1. client'[t].pc = c.pc
    BY <1>2, <1>5 DEF Client
  <2>2. QED
    BY <1>5, <2>1 DEF Queues
<1>6. ASSUME NEW k \in Client, k.pc = "taking", SoundCall(k), Took(t, k),
             server[t].state = "open", server'[t].state = server[t].state, line' = line,
             hold' = hold \/ \E mode \in {"shared", "exclusive"} :
                               hold' = [hold EXCEPT ![t] = Held(t, d, mode)]
      PROVE  Queues(t)
  BY <1>1, <1>2, <1>6, TookQueues
<1>7. ASSUME NEW R, server' = [server EXCEPT ![t].writes = @ \cup R]
                    \/ server' = [server EXCEPT ![t].writes = @ \cup R, ![t].fences = @ \cup R]
                    \/ server' = server
      PROVE  server'[t].state = server[t].state
  BY <1>2, <1>7 DEF Server
<1>8. \A R : Accepts(t, R) => server[t].state = "open"
  BY DEF Accepts
<1>9. CASE FenceHead(t)
  <2> DEFINE R == IF d \in server[t].docs THEN {HeadOf(d)} ELSE {}
  <2>1. \/ Conflicted(t) \/ NotFound(t)
        \/ /\ server' = [server EXCEPT ![t].writes = @ \cup R]
           /\ client' = [client EXCEPT ![t].stmt = "rest"]
           /\ UNCHANGED <<hold, asking, line>>
    BY <1>9 DEF FenceHead
  <2> HIDE DEF R
  <2>2. QED
    BY <1>3, <1>4, <1>5, <1>7, <2>1
<1>10. CASE FenceSharedFences(t)
  <2> DEFINE R == FencesOf(server[t].fences, d)
             k == [c EXCEPT !.exclusive = c.exclusive \cup {d}]
  <2>1. \/ Conflicted(t)
        \/ /\ Accepts(t, R) /\ server' = [server EXCEPT ![t].writes = @ \cup R]
           /\ hold' = [hold EXCEPT ![t] = Held(t, d, "exclusive")]
           /\ Took(t, k) /\ line' = line
    BY <1>10 DEF FenceSharedFences
  <2>2. k \in Client /\ k.pc = "taking" /\ SoundCall(k)
    <3>1. c.exclusive \cup {d} \in SUBSET Doc
      BY <1>2 DEF Client
    <3>2. \A e \in SUBSET Doc : [c EXCEPT !.exclusive = e] \in Client
      BY <1>2 DEF Client
    <3>3. k \in Client
      BY <3>1, <3>2
    <3>4. /\ k.pc = c.pc /\ k.call = c.call /\ k.locks = c.locks /\ k.at = c.at
          /\ k.stmt = c.stmt /\ k.wrote = c.wrote
      BY <1>2, <3>3 DEF Client
    <3> HIDE DEF k
    <3>5. QED
      BY <1>1, <1>2, <3>3, <3>4 DEF SoundCall
  <2> HIDE DEF R, k
  <2>3. QED
    BY <1>3, <1>6, <1>7, <1>8, <2>1, <2>2
<1>11. CASE ReadShared(t)
  <2>1. \/ Conflicted(t) \/ NotFound(t)
        \/ Accepts(t, {}) /\ Took(t, c) /\ UNCHANGED <<server, hold, line>>
        \/ /\ client' = [client EXCEPT ![t].stmt = "rest", ![t].slot = SlotFor(t)]
           /\ UNCHANGED <<server, hold, asking, line>>
    BY <1>11 DEF ReadShared
  <2>2. QED
    BY <1>1, <1>2, <1>3, <1>4, <1>5, <1>6, <1>8, <2>1
<1>12. CASE TakeSharedFence(t)
  <2> DEFINE f == Fence(d, c.slot)
             R == IF f \in server[t].fences THEN {f} ELSE {HeadOf(d)}
  <2>1. \/ Conflicted(t)
        \/ /\ Accepts(t, R) /\ server' = [server EXCEPT ![t].writes = @ \cup R]
           /\ line' = line
           /\ \/ hold' = [hold EXCEPT ![t] = Held(t, d, "shared")] /\ Took(t, c)
              \/ client' = [client EXCEPT ![t].stmt = "insert"] /\ UNCHANGED <<hold, asking>>
    BY <1>12 DEF TakeSharedFence
  <2> HIDE DEF R
  <2>2. QED
    BY <1>1, <1>2, <1>3, <1>5, <1>6, <1>7, <1>8, <2>1
<1>13. CASE InsertFence(t)
  <2> DEFINE R == {Fence(d, c.slot)}
  <2>1. \/ Conflicted(t)
        \/ /\ Accepts(t, R)
           /\ server' = [server EXCEPT ![t].writes = @ \cup R, ![t].fences = @ \cup R]
           /\ hold' = [hold EXCEPT ![t] = Held(t, d, "shared")] /\ Took(t, c)
           /\ line' = line
    BY <1>13 DEF InsertFence
  <2> HIDE DEF R
  <2>2. QED
    BY <1>1, <1>2, <1>3, <1>6, <1>7, <1>8, <2>1
<1>14. QED
  BY <1>9, <1>10, <1>11, <1>12, <1>13

\* A content write's statements in the queue.
LEMMA WriteQueues ==
  ASSUME TypeOK, ServerInv, ClientInv, NEW t \in Tx,
         FenceForWrite(t) \/ FenceSharedForWrite(t) \/ WriteContent(t) \/ DeleteSharedFences(t)
  PROVE  Queues(t)
<1> DEFINE c == client[t]
           d == c.call.doc
<1>1. c.pc = "writing"
  BY DEF FenceForWrite, FenceSharedForWrite, WriteContent, DeleteSharedFences, Writing
<1>2. /\ c \in Client /\ server[t] \in Server /\ d \in Doc
      /\ server \in [Tx -> Server] /\ client \in [Tx -> Client]
  BY <1>1, AtWrite DEF TypeOK
<1>3. CASE Conflicted(t)
  BY <1>1, <1>3, ConflictedQueues
<1>4. CASE client' = [client EXCEPT ![t] = Idle(c)] /\ server'[t].state = server[t].state
           /\ UNCHANGED <<hold, asking, line>>
  <2>1. client' = [client EXCEPT ![t] = Ended(c, "idle")]
    BY <1>2, <1>4, EndedWays
  <2>2. QED
    BY <1>1, <1>4, <2>1, EndedQueues
<1>5. \A R : Accepts(t, R) => server[t].state = "open"
  BY DEF Accepts
<1>6. CASE FenceForWrite(t)
  <2> DEFINE R == IF d \in server[t].docs THEN {HeadOf(d)} ELSE {}
  <2>1. \/ Conflicted(t)
        \/ /\ server' = [server EXCEPT ![t].writes = @ \cup R]
           /\ client' = [client EXCEPT ![t].stmt = "rest"]
           /\ UNCHANGED <<hold, asking, line>>
    BY <1>6 DEF FenceForWrite
  <2> HIDE DEF R
  <2>2. CASE /\ server' = [server EXCEPT ![t].writes = @ \cup R]
             /\ client' = [client EXCEPT ![t].stmt = "rest"]
             /\ UNCHANGED <<hold, asking, line>>
    <3>1. server'[t].state = server[t].state /\ client'[t].pc = c.pc
      BY <1>2, <2>2 DEF Server, Client
    <3>2. QED
      BY <2>2, <3>1 DEF Queues
  <2>3. QED
    BY <1>3, <2>1, <2>2
<1>7. CASE FenceSharedForWrite(t)
  <2> DEFINE R == FencesOf(server[t].fences, d)
             e == c.exclusive \cup {d}
  <2>1. \/ Conflicted(t)
        \/ /\ Accepts(t, R) /\ server' = [server EXCEPT ![t].writes = @ \cup R]
           /\ hold' = [hold EXCEPT ![t] = Held(t, d, "exclusive")]
           /\ client' = [client EXCEPT ![t].stmt = "content", ![t].exclusive = e]
           /\ UNCHANGED <<asking, line>>
    BY <1>7 DEF FenceSharedForWrite
  <2> HIDE DEF R, e
  <2>2. CASE /\ Accepts(t, R) /\ server' = [server EXCEPT ![t].writes = @ \cup R]
             /\ hold' = [hold EXCEPT ![t] = Held(t, d, "exclusive")]
             /\ client' = [client EXCEPT ![t].stmt = "content", ![t].exclusive = e]
             /\ UNCHANGED <<asking, line>>
    <3>1. server'[t].state = "open" /\ client'[t].pc = c.pc
      BY <1>2, <1>5, <2>2 DEF Server, Client
    <3>2. QED
      BY <1>2, <2>2, <3>1 DEF Queues
  <2>3. QED
    BY <1>3, <2>1, <2>2
<1>8. CASE WriteContent(t)
  <2> DEFINE R == IF d \in server[t].docs THEN {HeadOf(d), ContentOf(d)} ELSE {}
             D == IF c.call.mode = "delete" THEN server[t].docs \ {d} ELSE server[t].docs
  <2>1. \/ Conflicted(t)
        \/ /\ server' = [server EXCEPT ![t].writes = @ \cup R, ![t].docs = D]
           /\ \/ client' = [client EXCEPT ![t] = [c EXCEPT !.stmt = "fences"]]
              \/ client' = [client EXCEPT ![t] = Idle(c)]
           /\ UNCHANGED <<hold, asking, line>>
    BY <1>8 DEF WriteContent
  <2> HIDE DEF R, D
  <2>2. CASE /\ server' = [server EXCEPT ![t].writes = @ \cup R, ![t].docs = D]
             /\ client' = [client EXCEPT ![t] = [c EXCEPT !.stmt = "fences"]]
             /\ UNCHANGED <<hold, asking, line>>
    <3>1. server'[t].state = server[t].state /\ client'[t].pc = c.pc
      BY <1>2, <2>2 DEF Server, Client
    <3>2. QED
      BY <2>2, <3>1 DEF Queues
  <2>3. CASE /\ server' = [server EXCEPT ![t].writes = @ \cup R, ![t].docs = D]
             /\ client' = [client EXCEPT ![t] = Idle(c)]
             /\ UNCHANGED <<hold, asking, line>>
    <3>1. server'[t].state = server[t].state
      BY <1>2, <2>3 DEF Server
    <3>2. QED
      BY <1>4, <2>3, <3>1
  <2>4. QED
    BY <1>3, <2>1, <2>2, <2>3
<1>9. CASE DeleteSharedFences(t)
  <2> DEFINE R == FencesOf(server[t].fences, d)
  <2>1. \/ Conflicted(t)
        \/ /\ server' = [server EXCEPT ![t].writes = @ \cup R, ![t].fences = @ \ R]
           /\ client' = [client EXCEPT ![t] = Idle(c)]
           /\ UNCHANGED <<hold, asking, line>>
    BY <1>9 DEF DeleteSharedFences
  <2> HIDE DEF R
  <2>2. CASE /\ server' = [server EXCEPT ![t].writes = @ \cup R, ![t].fences = @ \ R]
             /\ client' = [client EXCEPT ![t] = Idle(c)]
             /\ UNCHANGED <<hold, asking, line>>
    <3>1. server'[t].state = server[t].state
      BY <1>2, <2>2 DEF Server
    <3>2. QED
      BY <1>4, <2>2, <3>1
  <2>3. QED
    BY <1>3, <2>1, <2>2
<1>10. QED
  BY <1>6, <1>7, <1>8, <1>9

\* All steps between beginning and end, in the queue.
LEMMA MiddleQueues ==
  ASSUME TypeOK, ServerInv, ClientInv, NEW t \in Tx, Middle(t)
  PROVE  Queues(t)
<1>1. server[t] \in Server /\ client[t] \in Client /\ server \in [Tx -> Server]
      /\ client \in [Tx -> Client] /\ deployment.docs \subseteq Doc
  BY MongoLocksAssumption DEF TypeOK, Deployment
<1>2. ASSUME NEW d \in deployment.docs, NEW mode \in {"shared", "exclusive"},
             LockDocument(t, d, mode)
      PROVE  Queues(t)
  <2>1. client[t].pc = "idle" /\ client'[t].pc \in {"turn", "taking"}
    BY <1>1, <1>2 DEF LockDocument, Client
  <2>2. QED
    BY <1>2, <2>1 DEF LockDocument, Queues
<1>3. ASSUME NEW d \in deployment.docs, NEW op \in {"update", "delete"}, Write(t, d, op)
      PROVE  Queues(t)
  <2>1. client[t].pc = "idle" /\ client'[t].pc = "writing"
    BY <1>1, <1>3 DEF Write, Client
  <2>2. QED
    BY <1>3, <2>1 DEF Write, Queues
<1>4. ASSUME NEW d \in deployment.docs, Lapse(t, d)
      PROVE  Queues(t)
  BY <1>1, <1>4 DEF Lapse, Queues
<1>5. CASE TakeTurn(t)
  <2>1. client[t].pc = "turn" /\ client'[t].pc = "taking"
    BY <1>1, <1>5 DEF TakeTurn, Client
  <2>2. server'[t].state = "none" => server[t].state = "none"
    BY <1>1, <1>5 DEF TakeTurn, Server
  <2>3. QED
    BY <1>5, <2>1, <2>2 DEF TakeTurn, Queues
<1>6. CASE AwaitTurn(t)
  <2>1. client[t].pc = "turn" /\ client'[t].pc = "turn"
    BY <1>1, <1>6 DEF AwaitTurn, Suspend, Client
  <2>2. QED
    BY <1>6, <2>1 DEF AwaitTurn, Suspend, Queues
<1>7. CASE WaitEnds(t)
  <2>1. client' = [client EXCEPT ![t] = Ended(client[t], "failed")]
    BY <1>1, <1>7, EndedWays DEF WaitEnds
  <2>2. /\ client[t].pc # "ended" /\ asking' \subseteq asking /\ hold' = hold /\ line' = line
        /\ server'[t].state = server[t].state
    BY <1>7 DEF WaitEnds
  <2>3. QED
    BY <2>1, <2>2, EndedQueues
<1>8. CASE Snapshot(t)
  <2> DEFINE l == [i \in DOMAIN client[t].locks |->
                     [mode |-> client[t].locks[i].mode, doc |-> client[t].locks[i].doc,
                      moved |-> client[t].locks[i].moved
                                \/ ContentOf(client[t].locks[i].doc) \in server[t].stale]]
  <2>1. client' = [client EXCEPT ![t].locks = l] /\ client[t].pc # "ended"
    BY <1>8 DEF Snapshot
  <2> HIDE DEF l
  <2>2. client'[t].pc = client[t].pc
    BY <1>1, <2>1 DEF Client
  <2>3. server'[t].state = "open"
    BY <1>1, <1>8 DEF Snapshot, NoServer
  <2>4. QED
    BY <1>8, <2>2, <2>3 DEF Snapshot, Queues
<1>9. CASE ServerAborts(t)
  <2>1. server'[t].state = "aborted"
    BY <1>1, <1>9 DEF ServerAborts, Server
  <2>2. QED
    BY <1>9, <2>1 DEF ServerAborts, Queues
<1>10. CASE Statement(t)
  BY <1>10, LockQueues, WriteQueues DEF Statement
<1>11. QED
  BY <1>2, <1>3, <1>4, <1>5, <1>6, <1>7, <1>8, <1>9, <1>10 DEF Middle

\* A step in the queue keeps the types and LineInv.
LEMMA QueuesStep ==
  ASSUME TypeOK, LineInv, NEW t \in Tx, Queues(t),
         \A u \in Tx \ {t} : client'[u] = client[u] /\ server'[u] = server[u]
  PROVE  /\ hold' \in [Tx -> [Doc -> Hold \cup {NoHold}]]
         /\ asking' \subseteq Tx /\ line' \in Seq(Tx) /\ LineInv'
<1>1. asking' \subseteq Tx /\ line' \in Seq(Tx)
  BY DEF Queues, TypeOK
<1>2. /\ \A i, j \in DOMAIN line' : line'[i] = line'[j] => i = j
      /\ \A u \in Tx : client'[u].pc # "ended" <=> \E i \in DOMAIN line' : line'[i] = u
  <2>1. line' = line /\ \A u \in Tx : client'[u].pc = "ended" <=> client[u].pc = "ended"
    BY DEF Queues
  <2>2. QED
    BY <2>1 DEF LineInv
<1>3. hold \in [Tx -> [Doc -> Hold \cup {NoHold}]]
  BY DEF TypeOK
<1> DEFINE Waits(h) == \A d \in Doc : h[d] # NoHold => h[d].waiting
<1>4. \A u \in Tx : server[u].state = "none" => Waits(hold[u])
  BY DEF LineInv, Holds
<1>5. ASSUME NEW h \in [Doc -> Hold \cup {NoHold}], hold' = [hold EXCEPT ![t] = h],
             server'[t].state = "none" => Waits(h)
      PROVE  /\ hold' \in [Tx -> [Doc -> Hold \cup {NoHold}]]
             /\ \A u \in Tx : server'[u].state = "none" => Waits(hold'[u])
  <2> HIDE DEF Waits
  <2>1. hold' \in [Tx -> [Doc -> Hold \cup {NoHold}]] /\ hold'[t] = h
        /\ \A u \in Tx \ {t} : hold'[u] = hold[u]
    BY <1>3, <1>5
  <2>2. QED
    BY <1>4, <1>5, <2>1
<1>6. /\ hold' \in [Tx -> [Doc -> Hold \cup {NoHold}]]
      /\ \A u \in Tx : server'[u].state = "none" => Waits(hold'[u])
  <2>1. CASE hold' = hold /\ (server'[t].state = "none" => server[t].state = "none")
    <3> HIDE DEF Waits
    <3>1. QED
      BY <1>3, <1>4, <2>1
  <2>2. CASE hold' = [hold EXCEPT ![t] = HoldsWait(t)]
    <3>1. Waits(HoldsWait(t))
      <4> SUFFICES ASSUME NEW d \in Doc, HoldsWait(t)[d] # NoHold
                   PROVE  HoldsWait(t)[d].waiting
        OBVIOUS
      <4>1. Holds(t, d) /\ HoldsWait(t)[d] = [hold[t][d] EXCEPT !.waiting = TRUE]
        BY DEF HoldsWait
      <4>2. hold[t][d] \in Hold
        BY <1>3, <4>1 DEF Holds
      <4>3. QED
        BY <4>1, <4>2 DEF Hold
    <3>2. HoldsWait(t) \in [Doc -> Hold \cup {NoHold}]
      BY HoldTypes
    <3> HIDE DEF Waits
    <3>3. QED
      BY <1>5, <2>2, <3>1, <3>2
  <2>3. CASE /\ server'[t].state # "none"
             /\ \E d \in Doc, mode \in {"shared", "exclusive"} :
                  hold' = [hold EXCEPT ![t] = Held(t, d, mode)]
    <3>1. PICK h \in [Doc -> Hold \cup {NoHold}] : hold' = [hold EXCEPT ![t] = h]
      BY <2>3, HoldTypes
    <3> HIDE DEF Waits
    <3>2. QED
      BY <1>5, <2>3, <3>1
  <2>4. CASE server' = server
             /\ \E d \in Doc : Holds(t, d) /\ hold' = [hold EXCEPT ![t][d].lapsed = TRUE]
    <3>1. PICK d \in Doc : Holds(t, d) /\ hold' = [hold EXCEPT ![t][d].lapsed = TRUE]
      BY <2>4
    <3> DEFINE r == [hold[t][d] EXCEPT !.lapsed = TRUE]
               h == [hold[t] EXCEPT ![d] = r]
    <3>2. hold[t] \in [Doc -> Hold \cup {NoHold}] /\ hold[t][d] \in Hold
      BY <1>3, <3>1 DEF Holds
    <3>3. r \in Hold /\ r.waiting = hold[t][d].waiting
      BY <3>2 DEF Hold
    <3>4. hold' = [hold EXCEPT ![t] = h]
      BY <1>3, <3>1, <3>2
    <3> HIDE DEF r
    <3>5. h \in [Doc -> Hold \cup {NoHold}] /\ h[d] = r /\ \A e \in Doc \ {d} : h[e] = hold[t][e]
      BY <3>2, <3>3
    <3> HIDE DEF h
    <3>6. server'[t].state = "none" => Waits(h)
      <4>1. ASSUME server'[t].state = "none", NEW e \in Doc, h[e] # NoHold
            PROVE  h[e].waiting
        <5>1. server[t].state = "none"
          BY <2>4, <4>1
        <5>2. CASE e = d
          <6>1. hold[t][d] # NoHold
            BY <3>1 DEF Holds
          <6>2. hold[t][d].waiting
            BY <1>4, <5>1, <6>1
          <6>3. QED
            BY <3>3, <3>5, <5>2, <6>2
        <5>3. CASE e # d
          BY <1>4, <3>5, <4>1, <5>1, <5>3
        <5>4. QED
          BY <5>2, <5>3
      <4>2. QED
        BY <4>1
    <3> HIDE DEF Waits
    <3>7. QED
      BY <1>5, <3>4, <3>5, <3>6
  <2>5. QED
    BY <2>1, <2>2, <2>3, <2>4 DEF Queues
<1>7. LineInv'
  BY <1>2, <1>6 DEF LineInv, Holds
<1>8. QED
  BY <1>1, <1>6, <1>7

\* So does the beginning or the end of a transaction.
LEMMA EdgeStep ==
  ASSUME TypeOK, ClientInv, LineInv, NEW t \in Tx,
         Begin(t) \/ (End(t) /\ client[t].pc # "ended"),
         Begin(t) => server'[t].state # "none",
         \A u \in Tx \ {t} : server'[u].state = server[u].state
  PROVE  /\ hold' \in [Tx -> [Doc -> Hold \cup {NoHold}]]
         /\ asking' \subseteq Tx /\ line' \in Seq(Tx) /\ LineInv'
<1>1. /\ Once(line) /\ line \in Seq(Tx) /\ asking \subseteq Tx
      /\ \A u \in Tx : client[u].pc # "ended" <=> InLine(line, u)
      /\ hold \in [Tx -> [Doc -> Hold \cup {NoHold}]]
  BY DEF TypeOK, LineInv, Once, InLine
<1>2. asking' \subseteq Tx /\ \A u \in Tx \ {t} : client'[u] = client[u]
  BY <1>1 DEF Begin, End, TypeOK
<1>3. /\ line' \in Seq(Tx) /\ Once(line')
      /\ InLine(line', t) <=> client'[t].pc # "ended"
      /\ \A u \in Tx \ {t} : InLine(line', u) <=> InLine(line, u)
  <2>1. CASE Begin(t)
    <3>1. line' = Append(line, t) /\ client[t].pc = "ended" /\ client'[t].pc = "idle"
      BY <2>1 DEF Begin, TypeOK, Client
    <3>2. ~InLine(line, t)
      BY <1>1, <3>1
    <3>3. QED
      BY <1>1, <3>1, <3>2, LineGrows
  <2>2. CASE End(t) /\ client[t].pc # "ended"
    <3>1. line' = RemoveAt(line, CHOOSE i \in DOMAIN line : line[i] = t)
          /\ client'[t].pc = "ended"
      BY <2>2 DEF End, TypeOK, NoClient
    <3>2. InLine(line, t)
      BY <1>1, <2>2
    <3>3. QED
      BY <1>1, <3>1, <3>2, LineShrinks
  <2>3. QED
    BY <2>1, <2>2
<1>4. /\ hold' \in [Tx -> [Doc -> Hold \cup {NoHold}]]
      /\ \A u \in Tx, d \in Doc :
           server'[u].state = "none" /\ hold'[u][d] # NoHold => hold'[u][d].waiting
  <2>1. \A u \in Tx, d \in Doc :
          server[u].state = "none" /\ hold[u][d] # NoHold => hold[u][d].waiting
    BY DEF LineInv, Holds
  <2>2. CASE Begin(t)
    <3>1. hold' = hold /\ server'[t].state # "none"
      BY <2>2 DEF Begin
    <3>2. QED
      BY <1>1, <2>1, <3>1
  <2>3. CASE End(t)
    <3>1. /\ hold' \in [Tx -> [Doc -> Hold \cup {NoHold}]] /\ hold'[t] = NoHolds
          /\ \A u \in Tx \ {t} : hold'[u] = hold[u]
      BY <1>1, <2>3, HoldTypes DEF End
    <3>2. \A d \in Doc : NoHolds[d] = NoHold
      BY DEF NoHolds
    <3>3. QED
      BY <2>1, <3>1, <3>2
  <2>4. QED
    BY <2>2, <2>3
<1>5. LineInv'
  BY <1>1, <1>2, <1>3, <1>4 DEF LineInv, Once, InLine, Holds
<1>6. QED
  BY <1>2, <1>3, <1>4, <1>5

-----------------------------------------------------------------------------
(* The inductive invariant.                                                 *)

LocksInv == TypeOK /\ ServerInv /\ ClientInv /\ LineInv

\* Nobody is there at the beginning.
LEMMA InitInv == Init => LocksInv
<1> SUFFICES ASSUME Init PROVE LocksInv
  OBVIOUS
<1>1. /\ deployment \in Deployment /\ deployment \in Deployments /\ docs = deployment.docs
      /\ fences = {} /\ asking = {} /\ line = <<>>
      /\ server = [t \in Tx |-> NoServer] /\ client = [t \in Tx |-> NoClient]
      /\ hold = [t \in Tx |-> NoHolds]
  BY MongoLocksAssumption DEF Init
<1>2. NoHolds \in [Doc -> Hold \cup {NoHold}] /\ \A d \in Doc : NoHolds[d] = NoHold
  BY DEF NoHolds
<1>3. TypeOK
  BY <1>1, <1>2, NoneTypes, NothingFits DEF TypeOK
<1>4. ServerInv
  <2>1. SoundView(NoServer, docs, fences)
    BY NoneTypes, NothingFits, ClosedView
  <2>2. QED
    BY <1>1, <2>1, NothingFits DEF ServerInv
<1>5. ClientInv
  BY <1>1, NothingFits DEF ClientInv
<1>6. LineInv
  BY <1>1, <1>2, NothingFits DEF LineInv, Holds
<1>7. QED
  BY <1>3, <1>4, <1>5, <1>6 DEF LocksInv

\* Every step is a beginning, an end, or one in between.
LEMMA StepKinds ==
  ASSUME TypeOK, NEW t \in Tx,
         \/ Engine(t)
         \/ TakeTurn(t) \/ AwaitTurn(t) \/ WaitEnds(t)
         \/ Snapshot(t) \/ Statement(t)
         \/ ServerAborts(t) \/ \E d \in deployment.docs : Lapse(t, d)
  PROVE  Begin(t) \/ Commit(t) \/ Rollback(t) \/ Middle(t)
BY DEF Engine, Middle

\* A step keeps the invariant.
LEMMA StepInv == LocksInv /\ [Next]_<<vars, deployment>> => LocksInv'
<1> SUFFICES ASSUME LocksInv, [Next]_<<vars, deployment>> PROVE LocksInv'
  OBVIOUS
<1>1. TypeOK /\ ServerInv /\ ClientInv /\ LineInv
  BY DEF LocksInv
<1>2. CASE UNCHANGED <<vars, deployment>>
  <2>1. /\ docs' = docs /\ fences' = fences /\ server' = server /\ client' = client
        /\ hold' = hold /\ asking' = asking /\ line' = line /\ deployment' = deployment
    BY <1>2 DEF vars
  <2>2. FenceRec' = FenceRec /\ Server' = Server /\ Client' = Client
    BY <2>1, SameTypes
  <2>3. TypeOK'
    BY <1>1, <2>1, <2>2 DEF TypeOK
  <2>4. ServerInv' /\ ClientInv'
    BY <1>1, <2>1 DEF ServerInv, ClientInv
  <2>5. LineInv'
    BY <1>1, <2>1 DEF LineInv, Holds
  <2>6. QED
    BY <2>3, <2>4, <2>5 DEF LocksInv
<1>3. CASE Next
  <2>1. deployment' = deployment
    BY <1>3 DEF Next
  <2>2. PICK t \in Tx : Begin(t) \/ Commit(t) \/ Rollback(t) \/ Middle(t)
    BY <1>1, <1>3, StepKinds DEF Next
  <2>3. ASSUME /\ docs' \subseteq deployment'.docs /\ fences' \subseteq FenceRec'
               /\ server' \in [Tx -> Server'] /\ client' \in [Tx -> Client']
               /\ \A u \in Tx : Len(client'[u].locks) <= MaxLocks
               /\ ServerInv' /\ ClientInv',
               /\ hold' \in [Tx -> [Doc -> Hold \cup {NoHold}]]
               /\ asking' \subseteq Tx /\ line' \in Seq(Tx) /\ LineInv'
        PROVE  LocksInv'
    <3>1. deployment' \in Deployments
      BY <1>1, <2>1 DEF TypeOK
    <3>2. TypeOK'
      BY <2>3, <3>1 DEF TypeOK
    <3>3. QED
      BY <2>3, <3>2 DEF LocksInv
  <2>4. ASSUME Good(t)
        PROVE  \A u \in Tx \ {t} : client'[u] = client[u] /\ server'[u] = server[u]
    BY <1>1, <2>4 DEF Good, Moves, TypeOK
  <2>5. CASE Middle(t)
    <3>1. Good(t) /\ Queues(t)
      BY <1>1, <2>5, MiddleGood, MiddleQueues
    <3>2. /\ hold' \in [Tx -> [Doc -> Hold \cup {NoHold}]]
          /\ asking' \subseteq Tx /\ line' \in Seq(Tx) /\ LineInv'
      BY <1>1, <2>4, <3>1, QueuesStep
    <3>3. QED
      BY <1>1, <2>1, <2>3, <3>1, <3>2, GoodStep
  <2>6. CASE Begin(t)
    <3>1. Good(t)
      BY <1>1, <2>6, BeginGood
    <3>2. server'[t].state = "started"
      BY <1>1, <2>6 DEF Begin, TypeOK, Server
    <3>3. /\ hold' \in [Tx -> [Doc -> Hold \cup {NoHold}]]
          /\ asking' \subseteq Tx /\ line' \in Seq(Tx) /\ LineInv'
      BY <1>1, <2>4, <2>6, <3>1, <3>2, EdgeStep
    <3>4. QED
      BY <1>1, <2>1, <2>3, <3>1, <3>3, GoodStep
  <2>7. CASE Rollback(t)
    <3>1. Good(t)
      BY <1>1, <2>7, RollbackGood
    <3>2. End(t) /\ client[t].pc # "ended" /\ ~Begin(t)
      BY <2>7 DEF Rollback, Begin
    <3>3. /\ hold' \in [Tx -> [Doc -> Hold \cup {NoHold}]]
          /\ asking' \subseteq Tx /\ line' \in Seq(Tx) /\ LineInv'
      BY <1>1, <2>4, <3>1, <3>2, EdgeStep
    <3>4. QED
      BY <1>1, <2>1, <2>3, <3>1, <3>3, GoodStep
  <2>8. CASE Commit(t)
    <3>1. End(t) /\ client[t].pc # "ended" /\ ~Begin(t)
      BY <2>8 DEF Commit, Begin
    <3>2. \A u \in Tx \ {t} : server'[u].state = server[u].state
      BY <1>1, <2>1, <2>8, CommitStep
    <3>3. /\ hold' \in [Tx -> [Doc -> Hold \cup {NoHold}]]
          /\ asking' \subseteq Tx /\ line' \in Seq(Tx) /\ LineInv'
      BY <1>1, <3>1, <3>2, EdgeStep
    <3>4. QED
      BY <1>1, <2>1, <2>3, <2>8, <3>3, CommitStep
  <2>9. QED
    BY <2>2, <2>5, <2>6, <2>7, <2>8
<1>4. QED
  BY <1>2, <1>3

\* The invariant holds.
LEMMA Invariance == Spec => []LocksInv
BY InitInv, StepInv, PTL DEF Spec

-----------------------------------------------------------------------------
(* What follows.                                                            *)

\* Type correctness of the whole protocol.
THEOREM TypeCorrect == Spec => []TypeOK
<1>1. LocksInv => TypeOK
  BY DEF LocksInv
<1>2. QED
  BY <1>1, Invariance, PTL

\* fences.go, "they are removed with it": whatever references race with the
\* deletion of a document, none leaves a shared fence behind.
THEOREM NoOrphanFences == Spec => []NoOrphanFence
<1>1. LocksInv => NoOrphanFence
  BY FenceNames, RecordNames DEF LocksInv, TypeOK, ServerInv, NoOrphanFence
<1>2. QED
  BY <1>1, Invariance, PTL

\* lockDocument and restart: every document that was received under a lock is
\* still what was received, whatever committed between the restarts.
THEOREM LockedStayCurrent == Spec => []LockedDocumentsAreCurrent
<1>1. LocksInv => LockedDocumentsAreCurrent
  <2> SUFFICES ASSUME LocksInv, NEW t \in Tx, NEW i \in TakenLocks(t)
               PROVE  /\ ~client[t].locks[i].moved
                      /\ ContentOf(client[t].locks[i].doc) \notin server[t].stale
    BY DEF LockedDocumentsAreCurrent
  <2> DEFINE d == client[t].locks[i].doc
  <2>1. TypeOK /\ ServerInv /\ SoundLocks(server[t], client[t])
    BY DEF LocksInv, ClientInv
  <2>2. i \in Taken(server[t], client[t]) /\ server[t].state = "open"
    BY DEF TakenLocks, Taken
  <2>3. ~client[t].locks[i].moved /\ Covers(server[t], d)
    BY <2>1, <2>2 DEF SoundLocks
  <2>4. d \in Doc
    <3>1. client[t].locks \in Seq(Call) /\ i \in DOMAIN client[t].locks
      BY <2>1, <2>2 DEF TypeOK, Client, Taken
    <3>2. client[t].locks[i] \in Call
      BY <3>1
    <3>3. QED
      BY <3>2 DEF Call
  <2> HIDE DEF d
  <2>5. ContentOf(d) \notin server[t].stale
    BY <2>1, <2>2, <2>3, <2>4, ServerFacts DEF SoundView, Covers
  <2>6. QED
    BY <2>3, <2>5 DEF d
<1>2. QED
  BY <1>1, Invariance, PTL

\* holdExclusive: an exclusive lock of an existing document excludes every
\* other lock of it, also one whose record it cannot see.
THEOREM ExclusiveLocksExclude == Spec => []ExclusiveExcludes
<1>1. LocksInv => ExclusiveExcludes
  <2> SUFFICES ASSUME LocksInv, NEW t \in Tx, NEW u \in Tx, t # u,
                      server[t].state = "open", server[u].state = "open",
                      NEW d \in docs \cap client[t].exclusive,
                      d \in client[u].exclusive \cup
                              {client[u].locks[i].doc : i \in TakenLocks(u)}
               PROVE  FALSE
    BY DEF ExclusiveExcludes
  <2>1. TypeOK /\ ServerInv /\ \A v \in Tx : SoundLocks(server[v], client[v])
    BY DEF LocksInv, ClientInv
  <2>2. d \in Doc
    BY <2>1, MongoLocksAssumption DEF TypeOK, Deployment
  <2>3. ASSUME NEW v \in Tx, server[v].state = "open", d \in client[v].exclusive
        PROVE  HeadOf(d) \in server[v].writes /\ WroteAll(server[v], d)
    <3>1. (HeadOf(d) \in server[v].writes \/ d \notin server[v].docs) /\ WroteAll(server[v], d)
      BY <2>1, <2>3 DEF SoundLocks
    <3>2. d \in docs \ server[v].docs => HeadOf(d) \in server[v].writes
      BY <2>1, <2>2, <2>3, ServerFacts DEF SoundView
    <3>3. QED
      BY <3>1, <3>2
  <2>4. Covers(server[u], d)
    <3>1. CASE d \in client[u].exclusive
      BY <2>3, <3>1 DEF Covers
    <3>2. CASE d \in {client[u].locks[i].doc : i \in TakenLocks(u)}
      BY <2>1, <3>2 DEF SoundLocks, TakenLocks
    <3>3. QED
      BY <3>1, <3>2
  <2>5. QED
    BY <2>1, <2>2, <2>3, <2>4, Apart
<1>2. QED
  BY <1>1, Invariance, PTL

\* lock_queue.go: "waiting transactions cannot form a cycle".  Of those that
\* wait for each other, the oldest waits for nobody.
THEOREM NoWaitCycles == Spec => []NoWaitCycle
<1>1. LocksInv => NoWaitCycle
  <2> SUFFICES ASSUME LocksInv, NEW S \in SUBSET {t \in Tx : Waiting(t)}, S # {}
               PROVE  \E t \in S : \A u \in S \ {t} : u \notin Peers(t) \/ ~Blocks(u, t)
    BY DEF NoWaitCycle
  <2>1. TypeOK /\ LineInv /\ Once(line)
    BY DEF LocksInv, LineInv, Once
  <2>2. \A t \in S : t \in Tx /\ server[t].state = "none" /\ InLine(line, t)
    BY <2>1 DEF Waiting, LineInv, InLine
  <2> DEFINE P == {i \in DOMAIN line : line[i] \in S}
  <2>3. P \subseteq Nat /\ P # {}
    BY <2>1, <2>2 DEF TypeOK, InLine
  <2>4. PICK i \in P : \A j \in P : i <= j
    BY <2>3, LeastNat
  <2> DEFINE t == line[i]
  <2>5. ASSUME NEW u \in S \ {t}, Blocks(u, t)
        PROVE  FALSE
    <3>1. PICK j \in DOMAIN line : line[j] = u
      BY <2>2 DEF InLine
    <3>2. i \in Nat /\ j \in Nat /\ i <= j /\ i # j
      BY <2>3, <2>4, <2>5, <3>1
    <3>3. Older(t, u)
      BY <3>1, <3>2 DEF Older
    <3>4. ~Older(u, t)
      <4> SUFFICES ASSUME NEW a \in DOMAIN line, NEW b \in DOMAIN line, a < b,
                          line[a] = u, line[b] = t
                   PROVE  FALSE
        BY DEF Older
      <4>1. b = i /\ a = j
        BY <2>1, <3>1 DEF Once
      <4>2. QED
        BY <3>2, <4>1
    <3>5. client[t].call.doc \in Doc
      <4>1. client[t].pc = "turn" /\ t \in Tx /\ ClientInv
        BY <2>2 DEF Waiting, LocksInv
      <4>2. client[t].call \in Call
        BY <4>1 DEF ClientInv, SoundCall
      <4>3. QED
        BY <4>2 DEF Call
    <3>6. Holds(u, client[t].call.doc) => hold[u][client[t].call.doc].waiting
      BY <2>1, <2>2, <3>5 DEF LineInv
    <3> HIDE DEF t
    <3>7. QED
      BY <2>5, <3>3, <3>4, <3>6 DEF Blocks
  <2>6. QED
    BY <2>5
<1>2. QED
  BY <1>1, Invariance, PTL
=============================================================================
