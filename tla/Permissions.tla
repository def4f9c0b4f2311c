----------------------------- MODULE Permissions -----------------------------
(***************************************************************************)
(* PermissionPolicy (sandbox/permissions.py): what a rule file, the effect *)
(* class and the grants of a session make of one tool call.  Asking the    *)
(* human is a step of ToolGate.                                            *)
(*                                                                         *)
(* Arguments are pairs of a parameter and a value, in declaration order; a *)
(* value is a sequence of words, because the rendered string that patterns *)
(* and grants are compared with is the values joined by spaces.  A pattern *)
(* is a sequence of words, open at the end when it ends in a star.         *)
(***************************************************************************)
EXTENDS Naturals, SequencesExt

Rendered(arguments) == FlattenSeq([i \in DOMAIN arguments |-> arguments[i].value])

Matches(rule, tool, rendered) ==
  /\ rule.tool \in {"*", tool}
  /\ IF rule.open THEN IsPrefix(rule.words, rendered) ELSE rule.words = rendered

-----------------------------------------------------------------------------
(* The file is a table from a verdict to a list of entries. *)

Entries(file, verdict) ==
  [i \in DOMAIN file[verdict] |->
     [tool |-> file[verdict][i].tool, words |-> file[verdict][i].words,
      open |-> file[verdict][i].open, verdict |-> verdict]]

\* Mutant: the rules keep the order of precedence a reader might expect of a list.
LoadedAllowFirst(file) == Entries(file, "allow") \o Entries(file, "deny") \o Entries(file, "ask")

Loaded(file) == Entries(file, "deny") \o Entries(file, "allow") \o Entries(file, "ask")

-----------------------------------------------------------------------------
(* decide, up to the question; the first rule that matches speaks. *)

Deciding(rules, tool, rendered) ==
  {i \in DOMAIN rules : /\ Matches(rules[i], tool, rendered)
                        /\ \A j \in 1..(i - 1) : ~Matches(rules[j], tool, rendered)}

ByDefault(policy, effect) ==
  IF effect # "write" THEN "allow" ELSE IF policy.strict THEN "deny" ELSE "ask"

Decided(policy, tool, rendered, effect) ==
  LET found == Deciding(policy.rules, tool, rendered)
  IN IF found = {} THEN ByDefault(policy, effect)
     ELSE policy.rules[CHOOSE i \in found : TRUE].verdict

\* Mutant: what a human agreed to once is agreed to for the tool.
GrantOfTool(tool, rendered) == <<tool, <<>>>>

Grant(tool, rendered) == <<tool, rendered>>
=============================================================================
