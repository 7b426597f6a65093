------------------------------ MODULE AiAnalyst ------------------------------
(***************************************************************************)
(* The AI layer above the deterministic findings (ai/analyst.py).  What    *)
(* the provider does with the prompt is                                    *)
(*   "away"      it is not available                                       *)
(*   "raises"    the call fails                                            *)
(*   "unreadable" its text has no JSON object in it                        *)
(* or the sequence of items of the object it returns: records with the id  *)
(* of a finding, a rank and a group.  A rank is an integer, Absent when    *)
(* there is none or it is not a number, or Mangled when it is a text that  *)
(* passes for digits and is none, like "--5".                              *)
(***************************************************************************)
EXTENDS ProofBundles

CONSTANTS
  Mangled        \* a rank that int() raises on

Unranked == 10000   \* where prioritized_order puts a finding without a rank

Disabled == [enabled |-> FALSE, annotations |-> <<>>, groups |-> <<>>, dropped |-> 0]

(* The last item about a finding is the one that is kept. *)
Annotations(ids, items) ==
  LET about(id) == {i \in DOMAIN items : items[i].id = id}
      kept(id)  == items[CHOOSE i \in about(id) : \A j \in about(id) : j <= i]
  IN  [id \in {x \in ids : about(x) # {}} |->
         [rank |-> kept(id).rank, group |-> kept(id).group]]

(* Mutant: a group is filled while the items are read. *)
GroupsAsRead(annotations, ids, items) ==
  [g \in {items[i].group : i \in {j \in DOMAIN items : items[j].id \in ids}} \ {Absent} |->
     {items[i].id : i \in {j \in DOMAIN items : items[j].group = g /\ items[j].id \in ids}}]

(* Groups are built from the annotations that were kept. *)
Groups(annotations, ids, items) ==
  [g \in {annotations[id].group : id \in DOMAIN annotations} \ {Absent} |->
     {id \in DOMAIN annotations : annotations[id].group = g}]

(* assess raises on a rank that int() cannot read, of a finding it knows.  *)
Assess(findings, reply) ==
  LET ids         == {findings[i].id : i \in DOMAIN findings}
      annotations == Annotations(ids, reply.items)
  IN  CASE findings = <<>> \/ reply.kind \in {"away", "raises", "unreadable"} -> Disabled
        [] findings # <<>> /\ reply.kind = "object" ->
             [enabled     |-> TRUE,
              annotations |-> annotations,
              groups      |-> Groups(annotations, ids, reply.items),
              dropped     |-> Cardinality({i \in DOMAIN reply.items :
                                             reply.items[i].id \notin ids})]

AssessRaises(findings, reply) ==
  /\ findings # <<>> /\ reply.kind = "object"
  /\ \E i \in DOMAIN reply.items :
       /\ reply.items[i].rank = Mangled
       /\ \E j \in DOMAIN findings : findings[j].id = reply.items[i].id

(* The rank 0 is no rank. *)
PriorityOf(assessment, f) ==
  IF f.id \in DOMAIN assessment.annotations
     /\ assessment.annotations[f.id].rank \notin {Absent, 0}
  THEN assessment.annotations[f.id].rank ELSE Unranked

ComesFirst(assessment, f, g) ==
  \/ PriorityOf(assessment, f) < PriorityOf(assessment, g)
  \/ PriorityOf(assessment, f) = PriorityOf(assessment, g) /\ f.risk > g.risk

(* Both sorts are stable: findings that tie keep their order.  The place   *)
(* of a finding is after all those that go first.                          *)
PrioritizedOrder(findings, assessment) ==
  LET first(i, j) ==
        IF assessment.enabled
        THEN \/ ComesFirst(assessment, findings[i], findings[j])
             \/ ~ComesFirst(assessment, findings[j], findings[i]) /\ i < j
        ELSE \/ findings[i].risk > findings[j].risk
             \/ findings[i].risk = findings[j].risk /\ i < j
      ahead(i) == Cardinality({j \in DOMAIN findings : first(j, i)})
  IN  [n \in DOMAIN findings |->
         findings[CHOOSE i \in DOMAIN findings : ahead(i) = n - 1]]

(* The orchestrator reorders the findings only when the AI is enabled. *)
Presented(findings, assessment) ==
  IF assessment.enabled THEN PrioritizedOrder(findings, assessment) ELSE findings
=============================================================================
