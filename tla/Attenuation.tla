----------------------------- MODULE Attenuation ------------------------------
(***************************************************************************)
(* What delegation promises, without tokens, scopes or budgets: whoever    *)
(* holds rights holds them unchanged for ever; they were either granted by *)
(* the service or passed on by a holder, who passes on at most its own.    *)
(***************************************************************************)
CONSTANTS
  Holders,  \* who may come to hold rights
  Right,    \* all rights there are
  Nobody    \* the giver of what the service grants

VARIABLE held  \* the rights of those who hold any, and from whom they come

Holding == [rights : SUBSET Right, from : Holders \cup {Nobody}]

Init == held = [h \in {} |-> Nobody]

\* h, who held nothing, now holds something; nobody else notices.
Gains(h) ==
  /\ h \notin DOMAIN held
  /\ DOMAIN held' = DOMAIN held \cup {h}
  /\ \A x \in DOMAIN held : held'[x] = held[x]
  /\ held'[h] \in Holding

Grant(h) == Gains(h) /\ held'[h].from = Nobody

PassOn(from, h) ==
  /\ from \in DOMAIN held
  /\ Gains(h)
  /\ held'[h].from = from
  /\ held'[h].rights \subseteq held[from].rights

Next ==
  \E h \in Holders : Grant(h) \/ \E from \in Holders : PassOn(from, h)

vars == <<held>>

Spec == Init /\ [][Next]_vars

=============================================================================
