---- MODULE MCLateFees ----
(* Small instances of LateFees for TLC. *)
EXTENDS LateFees

OneRule == <<1>>              \* one rule, from the first day on
TwoRules == <<1, 2>>          \* a slab for day one, one for day two on
OneRuleMax == <<9>>
TwoRulesMax == <<1, 9>>
===========================
