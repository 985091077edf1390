------------------------------- MODULE Migrations -------------------------------
(* Content migrations (migrate.rs): a revision removes the objects that carry *)
(* some file keys and restamps others, so that the loader finds again, under  *)
(* the new key, what it made under the old one.  The module is the pure part: *)
(* what one revision makes of a world, or that it is refused.                 *)
(*                                                                            *)
(* A revision is [remove |-> set of keys, rename |-> sequence of operations]; *)
(* an operation is the partial function from old keys to new keys that its    *)
(* prefix pair or its exact pair stands for.  A world is a partial function   *)
(* from references to records with a field fk.                                *)
EXTENDS Naturals, Sequences, FiniteSets, SequencesExt, Functions

NoKey == [area |-> "none", sub |-> "", base |-> "none", n |-> 0, dir |-> ""]

(* f folded over the members of a sequence from the left.  It differs from    *)
(* SequencesExt!FoldLeft only in that TLC needs no set of sets to compute it. *)
Along(f(_, _), start, seq) ==
    LET upTo[i \in 0..Len(seq)] == IF i = 0 THEN start ELSE f(upTo[i - 1], seq[i])
    IN  upTo[Len(seq)]

(* The references that carry the key k *)
Holders(objs, k) == {r \in DOMAIN objs : objs[r].fk = k}
KeysOf(objs) == {objs[r].fk : r \in DOMAIN objs} \ {NoKey}

(* The functions that pick a member of each of these sets *)
Selections(sets) ==
    LET open == {k \in DOMAIN sets : Cardinality(sets[k]) > 1}
        picks == {f \in [open -> UNION {sets[k] : k \in open}] : \A k \in open : f[k] \in sets[k]}
    IN  {[k \in DOMAIN sets |-> IF k \in open THEN f[k] ELSE CHOOSE r \in sets[k] : TRUE] :
            f \in picks}

(* What a revision would restamp, starting from who holds what once the       *)
(* removals are made.  A key that two objects hold is held by either: the     *)
(* code fills a hash map in no particular order.                              *)
Occupations(objs, mf) ==
    Selections([k \in KeysOf(objs) \ mf.remove |-> Holders(objs, k)])

(* One object restamped by one operation: refused when another object holds   *)
(* the new key at that moment.                                                *)
Restamp(plan, move) ==
    LET occ == plan.occ
        taken == move.new \in DOMAIN occ /\ occ[move.new] # move.ref
        left == Restrict(occ, DOMAIN occ \ {move.old})
    IN  IF ~plan.ok \/ taken THEN [plan EXCEPT !.ok = FALSE]
        ELSE [ok |-> TRUE,
              occ |-> [k \in DOMAIN left \cup {move.new} |->
                         IF k = move.new THEN move.ref ELSE left[k]],
              stamps |-> Append(plan.stamps, move)]

Moved(plan, moves) == Along(Restamp, plan, moves)

(* An operation's sources are read from the world as it is before any of them *)
(* is restamped, and visited in any order.                                    *)
Sources(objs, mf, op) ==
    {[ref |-> r, old |-> objs[r].fk, new |-> op[objs[r].fk]] :
        r \in {q \in DOMAIN objs : objs[q].fk \in DOMAIN op \ mf.remove}}

PlanOp(objs, mf, op, plans) ==
    UNION {{Moved(p, order) : order \in SetToSeqs(Sources(objs, mf, op))} :
              p \in plans}

(* Every plan the code can come to *)
FirstPlans(objs, mf) ==
    {[ok |-> TRUE, occ |-> occ, stamps |-> <<>>] : occ \in Occupations(objs, mf)}
Plans(objs, mf) ==
    Along(LAMBDA plans, op : PlanOp(objs, mf, op, plans), FirstPlans(objs, mf), mf.rename)

Removed(objs, mf) == {r \in DOMAIN objs : objs[r].fk \in mf.remove}

(* The world after the revision: the last restamp of an object is the one     *)
(* that stays.                                                                *)
ApplyOne(objs, mf, plan) ==
    LET kept == DOMAIN objs \ Removed(objs, mf)
        mine(r) == {i \in DOMAIN plan.stamps : plan.stamps[i].ref = r}
        newKey(r) == plan.stamps[CHOOSE i \in mine(r) : \A j \in mine(r) : j <= i].new
    IN  [r \in kept |-> IF mine(r) = {} THEN objs[r] ELSE [objs[r] EXCEPT !.fk = newKey(r)]]

(* No two operations of a revision name one key as a source.  The planner     *)
(* frees the old key of an object with every operation that names it, also    *)
(* with one that finds the object moved already: what else has taken that key *)
(* is then forgotten, and the next object may take it too.                    *)
Apart(mf) ==
    \A i, j \in DOMAIN mf.rename : i # j => DOMAIN mf.rename[i] \cap DOMAIN mf.rename[j] = {}

(* The keys that a revision may give to two objects *)
Overrun(mf, plan) == IF Apart(mf) THEN {} ELSE {plan.stamps[i].new : i \in DOMAIN plan.stamps}

Restamped(plan) == {plan.stamps[i].ref : i \in DOMAIN plan.stamps}
=================================================================================
