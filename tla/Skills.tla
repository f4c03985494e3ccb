------------------------------- MODULE Skills -------------------------------
(***************************************************************************)
(* The skills of an agent (src/liku/skills/) and the check a step passes   *)
(* before it runs (checkForEscalation of the orchestrator), as operators.  *)
(*                                                                         *)
(* A residence is the sequence of segments of its path, each reduced to    *)
(* what the code looks for: "Liku", "root" (begins with root),             *)
(* "specialist" (begins with specialist) or "other".  Its skill files are  *)
(* the skills.xml from the residence up to Liku/, nearest first, each the  *)
(* sequence of its elements.  Skill ids are numbered in the order in which *)
(* they sort; 0 is a missing or blank id.                                  *)
(***************************************************************************)
EXTENDS Integers, Sequences, SequencesExt, FiniteSetsExt

Privileges == {"user", "specialist", "root"}
Capabilities == {"read_repo", "write_repo", "execute_code", "network_access",
                 "memory_write", "escalate", "invoke_subagent"}

PRIVILEGE_CAPABILITIES ==
  [root |-> Capabilities, specialist |-> Capabilities \ {"network_access", "escalate"},
   user |-> {"read_repo"}]

privilegeOrder(p) == CASE p = "user" -> 0 [] p = "specialist" -> 1 [] p = "root" -> 2

getResidencePrivilege(residence) ==
  LET below(segment) == \E i \in 2..Len(residence) : residence[i] = segment
  IN IF below("root") \/ residence[Len(residence)] = "Liku" THEN "root"
     ELSE IF below("specialist") THEN "specialist" ELSE "user"

----------------------------------------------------------------------------
\* An element of a skills.xml, its attributes as they are written: `privilege' and
\* `requires' may be anything ("other"), or absent ("none").
Element(id, privilege, requires, escalate) ==
  [id |-> id, privilege |-> privilege, requires |-> requires, escalate |-> escalate]
SkillElements == [id : Nat, privilege : STRING, requires : STRING, escalate : BOOLEAN]

\* The skill of an element: what is not a privilege counts as user, what is not a
\* capability as no requirement.
LikuSkill(e) == [e EXCEPT !.privilege = IF @ \in Privileges THEN @ ELSE "user",
                          !.requires = IF @ \in Capabilities THEN @ ELSE "none"]

\* byId.set; an element without an id yields no skill.
withSkill(byId, e) ==
  IF e.id = 0 THEN byId
  ELSE [id \in DOMAIN byId \union {e.id} |-> IF id = e.id THEN LikuSkill(e) ELSE byId[id]]

\* The skills of one file, loadSkillsXml, over those loaded so far.
withFile(byId, file) == FoldLeft(withSkill, byId, file)

\* Mutated form of loadInheritedSkills: the files are not reversed, so that the
\* definitions of the parents win.
loadSkillsOfParents(files) == FoldLeft(withFile, <<>>, files)

\* loadInheritedSkills: parents first, children override by id.
loadInheritedSkills(files) == FoldLeft(withFile, <<>>, Reverse(files))

----------------------------------------------------------------------------
\* The verdict on a skill at a privilege level; a missing capability is told
\* apart by escalateIfMissing.
validateSkillExecution(s, privilege) ==
  IF privilegeOrder(privilege) < privilegeOrder(s.privilege) THEN "insufficient_privilege"
  ELSE IF s.requires \in {"none"} \union PRIVILEGE_CAPABILITIES[privilege] THEN "allowed"
  ELSE IF s.escalate THEN "escalate" ELSE "missing_capability"

\* validateSkillsIndex and checkForEscalation: the skill reported as missing, the
\* first one whose capability is to be escalated, or else the first one whose
\* privilege is too high; 0 when the step may run.
checkForEscalation(skills, privilege) ==
  LET found(verdict) ==
        {id \in DOMAIN skills : validateSkillExecution(skills[id], privilege) = verdict}
  IN IF found("escalate") # {} THEN Min(found("escalate"))
     ELSE IF found("insufficient_privilege") # {} THEN Min(found("insufficient_privilege"))
     ELSE 0

----------------------------------------------------------------------------
\* What engine.init writes: the skills of Liku/, of Liku/specialist/, and two of
\* each specialist.  Nothing is written at Liku/root.
SeededLiku == <<Element(3, "user", "none", FALSE),       \* log_error
                Element(4, "user", "none", FALSE),       \* read_todo
                Element(2, "root", "none", FALSE)>>      \* escalate
SeededSpecialist == <<Element(7, "specialist", "none", FALSE),   \* write_todo
                      Element(6, "specialist", "none", FALSE),   \* write_error
                      Element(5, "specialist", "none", FALSE)>>  \* request_subagent
SeededTs == <<Element(8, "specialist", "none", FALSE),           \* refactor_ts
              Element(1, "specialist", "none", FALSE)>>          \* check_types

\* The files found from the directory of ts; the other specialists differ in ids.
SeededFiles == <<SeededTs, SeededSpecialist, SeededLiku>>
=============================================================================
