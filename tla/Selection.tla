----------------------------- MODULE Selection -----------------------------
(***************************************************************************)
(* plugins/selection.ts: which of the tools a Bot was given a run is       *)
(* offered.  A pure choice; DeploymentProofs shows what it can and cannot  *)
(* take away.                                                              *)
(***************************************************************************)
EXTENDS FiniteSets, Integers

(***************************************************************************)
(* declaredBy: what these skills say they need, of what was granted.       *)
(***************************************************************************)
DeclaredBy(skills, declares, granted) ==
  {t \in granted : \E s \in skills : t \in declares[s]}

(***************************************************************************)
(* readChosenSkills: the names the model gave that are names of skills.    *)
(***************************************************************************)
ReadChosenSkills(answer, skills) == answer \cap skills

(***************************************************************************)
(* selectTools.  `answer` is what the model named; {} stands for every way *)
(* of not having an answer: no message, no key, a timeout, a malformed     *)
(* reply, no name known.  What no skill claims rides along.                *)
(***************************************************************************)
SelectTools(granted, skills, declares, answer, floor) ==
  LET declared == DeclaredBy(skills, declares, granted)
      chosen == ReadChosenSkills(answer, skills)
      wanted == DeclaredBy(chosen, declares, granted)
  IN IF Cardinality(granted) <= floor \/ declared = {} \/ chosen = {}
       THEN granted
       ELSE {t \in granted : t \notin declared \/ t \in wanted}
=============================================================================
