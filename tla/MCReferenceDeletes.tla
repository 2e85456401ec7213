------------------------- MODULE MCReferenceDeletes -------------------------
(* Instances of ReferenceDeletes for TLC. *)
EXTENDS ReferenceDeletes

Three == 1 .. 3

\* The database in which o refers to t by kind[o][t], "none" for no reference,
\* in its working head, its live head or both.
Database(kind, inWorking, inLive, stored) ==
  LET refs(o) == {t \in Doc : kind[o][t] # "none"} IN
  [stored |-> stored,
   working |-> [o \in Doc |-> IF o \in inWorking THEN refs(o) ELSE {}],
   live |-> [o \in Doc |-> IF o \in inLive THEN refs(o) ELSE {}],
   index |-> UNION {{<<o, t>> : t \in refs(o)} : o \in Doc}]

Case(kind, inWorking, inLive, stored, h) ==
  [policy |-> [o \in Doc |-> [t \in Doc |-> IF kind[o][t] = "none" THEN "nullify" ELSE kind[o][t]]],
   db |-> Database(kind, inWorking, inLive, stored), hooks |-> h]

Kinds(other, own) ==
  {k \in [Doc -> [Doc -> other \cup own]] :
     \A o, t \in Doc : k[o][t] \in IF o = t THEN own ELSE other}

\* Every graph of three documents without hooks; the first one refers by its
\* live head only.
AllGraphs ==
  {Case(k, {2, 3}, {1, 3}, Doc, 0) : k \in Kinds(Policies \cup {"none"}, {"none"})}

\* Graphs with references of a document to itself.
SelfGraphs ==
  {Case(k, {1, 2}, {3}, Doc, 0) : k \in Kinds({"none", "cascade"}, {"none", "restrict", "cascade"})}

\* Graphs with at most three references whose hooks act once, and may write a
\* reference that is missing.
HookGraphs ==
  LET graphs == {g \in Kinds(Policies \cup {"none"}, {"none"}) :
                   Cardinality({p \in Doc \X Doc : g[p[1]][p[2]] # "none"}) <= 3}
      missing(g) == {[g EXCEPT ![p[1]][p[2]] = "none"] : p \in Doc \X Doc}
  IN  UNION {{[Case(g, Doc, {}, Doc, 1) EXCEPT !.db = Database(f, Doc, {}, Doc)] :
                f \in missing(g)} : g \in graphs}

\* A document that is asked for is not there.
Absent == {Case([o \in Doc |-> [t \in Doc |-> "none"]], {}, {}, {2, 3}, 0)}

AllCases == AllGraphs \cup SelfGraphs \cup HookGraphs \cup Absent

\* A single document, or two in a batch.
Requests == {<<d>> : d \in Doc} \cup {<<1, 3>>, <<3, 1>>, <<2, 1>>}
=============================================================================
