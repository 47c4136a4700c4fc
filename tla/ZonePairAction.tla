---------------------------- MODULE ZonePairAction ----------------------------
(***************************************************************************)
(* The cell of the zone matrix: what the policies from one zone to another *)
(* do with traffic no specific policy is about (getDefaultAction and its   *)
(* helpers in ui/src/components/FirewallRules.jsx).                        *)
(*                                                                         *)
(* Of a policy it matters whether it is specific (its source, destination  *)
(* or protocol says more than the zone), which connection states it is     *)
(* for, and its place in the order of evaluation.                          *)
(***************************************************************************)
EXTENDS Naturals

\* states: none are named; only ESTABLISHED and RELATED; these and others; others.
Policy == [index : Nat, action : {"ALLOW", "BLOCK", "REJECT"}, controllable : BOOLEAN,
           specific : BOOLEAN, states : {"any", "return", "mixed", "other"},
           allowReturnTraffic : BOOLEAN]

IsBlanket(p) == ~p.specific /\ p.states = "any"

AllowsReturnTraffic(p) ==
    p.action = "ALLOW" /\ (p.allowReturnTraffic \/ p.states \in {"return", "mixed"})

IsReturnBlanket(p) == AllowsReturnTraffic(p) /\ ~p.specific /\ p.states \in {"any", "return"}

\* The first blanket policy is the catch-all; a return blanket counts before it.
IsCatchAll(p, ps) == IsBlanket(p) /\ \A q \in ps : IsBlanket(q) => p.index <= q.index
IsBeforeCatchAll(p, ps) == \A q \in ps : IsBlanket(q) => p.index < q.index

GetDefaultAction(policies) ==
    LET ps == {p \in policies : p.controllable} IN
    CASE policies = {} -> "none"
      [] \E p \in ps : IsCatchAll(p, ps) /\ p.action # "BLOCK" -> "Allow All"
      [] /\ policies # {}
         /\ ~ \E p \in ps : IsCatchAll(p, ps) /\ p.action # "BLOCK"
         /\ \E p \in ps : IsReturnBlanket(p) /\ IsBeforeCatchAll(p, ps) -> "Allow Return"
      [] OTHER -> "Block All"
===============================================================================
