---------------------------- MODULE LicensePolicy ---------------------------
(***************************************************************************)
(* The licence policy (governance/policy.py) and the inventory gate built  *)
(* on it (governance/inventory.py).  An expression is the sequence of its  *)
(* tokens: licence ids, "OR", "AND" and parentheses.                       *)
(***************************************************************************)
EXTENDS Integers, Sequences, FiniteSets

CONSTANTS
  Table,         \* the licence ids the policy lists
  TableClass,    \* TableClass[l]: the class it lists l under
  Isolated       \* arms_length_integration_types

ASSUME PolicyAssumption == TableClass \in [Table -> {"GREEN", "YELLOW", "RED"}]

Severity(class) ==
  CASE class = "GREEN" -> 0 [] class = "YELLOW" -> 1
    [] class = "UNKNOWN" -> 2 [] class = "RED" -> 3

Mildest(classes) ==
  CHOOSE c \in classes : \A d \in classes : Severity(c) <= Severity(d)
Strictest(classes) ==
  CHOOSE c \in classes : \A d \in classes : Severity(d) <= Severity(c)

Parens == {"(", ")"}

(* .strip("()"): what is between the outermost tokens that are not         *)
(* parentheses.                                                            *)
Stripped(s) ==
  LET kept == {i \in DOMAIN s : s[i] \notin Parens}
  IN  IF kept = {} THEN <<>>
      ELSE SubSeq(s, CHOOSE i \in kept : \A k \in kept : i <= k,
                     CHOOSE j \in kept : \A k \in kept : k <= j)

(* _split: the parts between the occurrences of op, wherever they are,     *)
(* without the parentheses at their ends.                                  *)
Split(s, op) ==
  LET cuts == {0, Len(s) + 1} \cup {i \in DOMAIN s : s[i] = op}
  IN  {Stripped(SubSeq(s, c[1] + 1, c[2] - 1)) :
         c \in {d \in cuts \X cuts :
                  d[1] + 1 < d[2] /\ \A k \in cuts : k <= d[1] \/ d[2] <= k}}

Has(s, op) == \E i \in DOMAIN s : s[i] = op

(* A part without operators is looked up as it is written. *)
LookUp(s) ==
  IF Len(s) = 1 /\ s[1] \in Table THEN TableClass[s[1]] ELSE "UNKNOWN"

ClassifyAnd(s) ==
  IF Has(s, "AND") THEN Strictest({LookUp(part) : part \in Split(s, "AND")})
                   ELSE LookUp(s)

(* Mutant: the operators are split in the other order. *)
ClassifyAndFirst(s) ==
  LET or(t) == IF Has(t, "OR") THEN Mildest({LookUp(part) : part \in Split(t, "OR")})
                               ELSE LookUp(t)
  IN  IF Has(s, "AND") THEN Strictest({or(part) : part \in Split(s, "AND")})
                       ELSE or(s)

(* classify: the OR operands first, whatever the parentheses say.          *)
Classify(s) ==
  IF Has(s, "OR") THEN Mildest({ClassifyAnd(part) : part \in Split(s, "OR")})
                  ELSE ClassifyAnd(s)

-----------------------------------------------------------------------------
(* What check_inventory reports of a component. *)
Report(c) ==
  LET class    == Classify(c.license)
      isolated == c.integration \in Isolated
      approved == c.approval = "approved"
  IN  CASE class = "UNKNOWN" -> {"license.unknown"}
        [] class = "RED" ->
             IF isolated /\ approved
             THEN {"license.red.arms_length_approved"} \cup
                  {v \in {"license.approval.no_reference"} : ~c.reference}
             ELSE {"license.red.blocked"}
        [] class = "YELLOW" -> {v \in {"license.yellow.needs_review"} : ~approved}
        [] class = "GREEN"  -> {v \in {"component.rejected"} : c.approval = "rejected"}

(* The violations of severity "warning"; all others are errors. *)
Warnings == {"license.red.arms_length_approved"}

(* CheckReport.ok: the gate lets the inventory pass. *)
Passes(inventory) == \A c \in inventory : Report(c) \subseteq Warnings
=============================================================================
