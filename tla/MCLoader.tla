------------------------------- MODULE MCLoader -------------------------------
(***************************************************************************)
(* Loader on a small tree: a group grp with the row kid, and the row sib.  *)
(***************************************************************************)
EXTENDS Loader, TLC

CONSTANTS grp, kid, sib, c1, c2, root

Rows3 == <<grp, kid, sib>>
In == (grp :> root) @@ (kid :> grp) @@ (sib :> root)
AllOn == [x \in {grp, kid, sib} |-> [off |-> FALSE, config |-> 0, inject |-> 0]]

Set(x, what, v) == [row |-> x, set |-> what, to |-> v]
Off(x) == Set(x, "disable", 0)
On(x) == Set(x, "enable", 0)
Config(x) == Set(x, "config", 1)
Rescope(x) == Set(x, "inject", 1)
Removal(x) == Set(x, "remove", 0)
Creation(x) == Set(x, "create", 0)
Flushing == Set(sib, "flush", 0)
Reconciling == Set(sib, "reconcile", 0)
Nothing == Set(sib, "nothing", 0)

Jobs(x, y) == [c \in {c1, c2} |-> IF c = c1 THEN x ELSE y]

Calm == [job |-> Jobs(Nothing, Nothing), outside |-> 0, saveFails |-> 0,
         loadFails |-> 0, applyFails |-> 0, giveUps |-> 0, upsets |-> 0, stuck |-> {}]

(* edits pending, in conflict with another writer *)
Writers ==
  {[Calm EXCEPT !.job = Jobs(Config(kid), Flushing), !.outside = 1, !.saveFails = 1],
   [Calm EXCEPT !.job = Jobs(Removal(sib), Creation(sib)), !.outside = 2, !.saveFails = 1],
   [Calm EXCEPT !.job = Jobs(Config(kid), Config(sib)), !.outside = 1, !.saveFails = 1,
                !.applyFails = 1],
   [Calm EXCEPT !.job = Jobs(Config(kid), Config(sib)), !.outside = 2, !.saveFails = 1],
   [Calm EXCEPT !.job = Jobs(Config(sib), Reconciling), !.outside = 1, !.saveFails = 1]}

(* four conflicts, one after the other *)
Crowd ==
  {[Calm EXCEPT !.job = Jobs(Config(kid), Nothing), !.outside = 4, !.loadFails = 1]}

(* a group replaced, or switched off and on, while it reloads or a row     *)
(* disposes itself                                                         *)
Replacements ==
  {[Calm EXCEPT !.job = Jobs(Rescope(grp), Removal(kid)), !.upsets = 1, !.applyFails = 1],
   [Calm EXCEPT !.job = Jobs(Rescope(kid), Rescope(grp)), !.upsets = 1],
   [Calm EXCEPT !.job = Jobs(Off(grp), On(grp)), !.upsets = 1]}

(* the caller gives up in the middle *)
GivenUp ==
  {[Calm EXCEPT !.job = Jobs(Rescope(grp), Config(kid)), !.giveUps = 1],
   [Calm EXCEPT !.job = Jobs(Config(sib), Rescope(sib)), !.giveUps = 1, !.upsets = 1]}

(* the row sib, started again in another scope, never loads *)
StuckRow ==
  {[Calm EXCEPT !.job = Jobs(Rescope(sib), Config(x)), !.giveUps = 1, !.stuck = {sib}] :
     x \in {kid, sib}}

Mixed == Writers \cup Crowd \cup Replacements \cup GivenUp \cup StuckRow
=============================================================================
