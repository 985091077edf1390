------------------------------- MODULE MCContent -------------------------------
(* A town of one square with a way around it that may come to lead to a room  *)
(* that is not there, and a wild area of one script.  A new version of the    *)
(* town has a hat that the bundle's square closes a circle of archetypes with;*)
(* another has a bag, and so has the bundle, which does not make it the way   *)
(* files do: detached from the square it comes to pass for theirs.            *)
EXTENDS Content

K(area, sub, base, dir) == [area |-> area, sub |-> sub, base |-> base, n |-> 1, dir |-> dir]
Square == K("town", "", "square", "")
Around == K("town", "exit", "square", "around")
Nothing == K("town", "", "nothing", "")
Bell == K("wild", "script", "bell", "")
TownBell == K("town", "script", "bell", "")
BellProgram == K("wild", "file", "bell", "")
Bag == K("town", "", "bag", "")
Hat == K("town", "", "hat", "")
Glade == K("wild", "", "glade", "")

Def(key, kind, loc, to, desc, script) ==
    [key |-> key, kind |-> kind, loc |-> loc, to |-> to, arch |-> NoKey, desc |-> desc,
     script |-> script, lib |-> NoKey]
File(things, rest) == [parses |-> TRUE, absent |-> FALSE, things |-> things, rest |-> rest]

Room(key, desc) == Def(key, "room", NoKey, NoKey, desc, NoKey)
OfKind(d, key) == [d EXCEPT !.arch = key]
NewHat == OfKind(Def(Hat, "item", Square, NoKey, "old", NoKey), Square)
NewBag == Def(Bag, "item", Square, NoKey, "old", NoKey)
Town(things, to) == File(things, <<Def(Around, "exit", Square, to, "none", NoKey)>>)
OldTown == Town(<<Room(Square, "old")>>, Square)
Wild == File(<<>>, <<Def(Bell, "code", NoKey, NoKey, "none", BellProgram)>>)

MCAreaOrder == <<"town", "wild">>
MCVersions ==
    "town" :> {OldTown, Town(<<Room(Square, "new"), NewBag>>, Nothing),
               Town(<<Room(Square, "new"), NewHat>>, Square)}
    @@ "wild" :> {Wild}
MCStart == [files |-> "town" :> OldTown @@ "wild" :> Wild, texts |-> BellProgram :> "t1"]
MCProgFiles == {BellProgram}
MCTexts == {"t1", "t2"}
MCHandWritten == [kinds |-> {"code"}, texts |-> {"t1"}]

MCBundles == {[things |-> <<OfKind(Room(Square, "new"), Hat),
                            OfKind(Def(Bag, "item", Square, NoKey, "old", BellProgram), Square)>>,
               rest |-> <<>>, texts |-> BellProgram :> "t2"]}

(* The wild area joins the town, and the way around goes. *)
MCRevisions == <<[remove |-> {Around}, rename |-> <<Bell :> TownBell>>]>>

(* The example of docs/migrations.md: the stale copy is removed, the original *)
(* takes its key.                                                             *)
StaleVersions == "town" :> {File(<<Room(Square, "old")>>, <<>>)} @@ "wild" :> {File(<<Room(Glade, "old")>>, <<>>)}
StaleStart == [files |-> "town" :> File(<<Room(Square, "old")>>, <<>>) @@ "wild" :> File(<<Room(Glade, "old")>>, <<>>),
               texts |-> BellProgram :> "t1"]
StaleRevisions == <<[remove |-> {Square}, rename |-> <<Glade :> Square>>]>>

(* Whatever up to four operations do with three objects and four keys: what a *)
(* revision that is not refused gives to two objects is a key it may run over *)
(* (docs/migrations.md:79 says that it is refused), and it does give one:     *)
(* lamp to glade, hat to lamp, lamp to glade, bag to lamp (migrate.rs:274).   *)
Lamp == K("town", "", "lamp", "")
Furniture == [r \in 1..3 |-> [fk |-> <<Lamp, Hat, Bag>>[r]]]
Renames == {k :> new : k \in {Lamp, Hat, Bag}, new \in {Lamp, Hat, Bag, Glade}}
Twice(o) == {o[q].fk : q \in {q \in DOMAIN o : \E r \in DOMAIN o \ {q} : o[q].fk = o[r].fk}}
Doubles(mf) == {[keys |-> Twice(ApplyOne(Furniture, mf, plan)), plan |-> plan] :
                   plan \in {p \in Plans(Furniture, mf) : p.ok}}
Moving(ops) == [remove |-> {}, rename |-> ops]
ASSUME AgreeOnRenames ==
    /\ \A n \in 0..4 : \A ops \in [1..n -> Renames] : LET mf == Moving(ops) IN
          \A d \in Doubles(mf) : d.keys \subseteq Overrun(mf, d.plan)
    /\ \E d \in Doubles(Moving(<<Lamp :> Glade, Hat :> Lamp, Lamp :> Glade, Bag :> Lamp>>)) : d.keys = {Lamp}
================================================================================
