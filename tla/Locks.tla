--------------------------------- MODULE Locks ---------------------------------
(* Lock expressions (locks.rs): parsed from a sequence of words, evaluated    *)
(* for an actor.  What the parser returns is <<>> for an error, else a        *)
(* sequence of one, the tree: a sequence that starts with what it is.         *)
(*                                                                            *)
(* A lexicon says what words mean as arguments: `hours` the words that are    *)
(* numbers, with the numbers; `tags` and `kinds` the words that are ones.     *)
EXTENDS Integers, Sequences, FiniteSets

Token(ws, pos) == IF pos \in DOMAIN ws THEN ws[pos] ELSE "end"
Failed == [ok |-> FALSE, tree |-> <<>>, pos |-> 0]
Done(tree, pos) == [ok |-> TRUE, tree |-> tree, pos |-> pos]

(* parse_args: words up to a comma or the closing parenthesis make up an      *)
(* argument, an opening one among them, and nothing at all before a comma.    *)
RECURSIVE ParseArg(_, _, _), ParseArgs(_, _, _)
ParseArg(ws, pos, arg) ==
    IF Token(ws, pos) \in {",", ")", "end"} THEN [arg |-> arg, pos |-> pos]
    ELSE ParseArg(ws, pos + 1, Append(arg, ws[pos]))
ArgsFrom(ws, a, args) ==
    CASE Token(ws, a.pos) = "end" -> Failed
      [] Token(ws, a.pos) = ")" -> Done(Append(args, a.arg), a.pos + 1)
      [] Token(ws, a.pos) = "," -> ParseArgs(ws, a.pos + 1, Append(args, a.arg))
ParseArgs(ws, pos, args) ==
    IF args = <<>> /\ Token(ws, pos) = ")" THEN Done(<<>>, pos + 1)
    ELSE ArgsFrom(ws, ParseArg(ws, pos, <<>>), args)

(* The functions, with what they ask of their arguments *)
Word(arg) == IF Len(arg) = 1 THEN arg[1] ELSE "several words"
Hour(lex, arg) == Word(arg) \in DOMAIN lex.hours /\ lex.hours[Word(arg)] \in 0..23
Takes(lex, name, args) ==
    CASE name = "perm" -> Len(args) = 1
      [] name \in {"has_tag", "in_inventory"} -> Len(args) = 1 /\ Word(args[1]) \in lex.tags
      [] name = "has_attr" -> Len(args) \in 1..2
      [] name = "is_kind" -> Len(args) = 1 /\ Word(args[1]) \in lex.kinds
      [] name = "is_owner" -> Len(args) = 0
      [] name \in {"time_between", "game_time_between"} ->
             Len(args) = 2 /\ Hour(lex, args[1]) /\ Hour(lex, args[2])
      [] OTHER -> FALSE

(* parse_or, parse_and, parse_not, parse_atom.  OR and AND lean to the left,  *)
(* NOT takes an atom and so never another NOT.                                *)
RECURSIVE ParseOr(_, _, _), OrRest(_, _, _), ParseAnd(_, _, _), AndRest(_, _, _)
Called(lex, name, a) == IF a.ok /\ Takes(lex, name, a.tree) THEN Done(<<name, a.tree>>, a.pos) ELSE Failed
Closed(ws, inner) == IF inner.ok /\ Token(ws, inner.pos) = ")" THEN [inner EXCEPT !.pos = @ + 1] ELSE Failed
ParseAtom(lex, ws, pos) ==
    CASE Token(ws, pos) = "(" -> Closed(ws, ParseOr(lex, ws, pos + 1))
      [] Token(ws, pos) \in {"true", "false"} -> Done(<<Token(ws, pos)>>, pos + 1)
      [] pos \in DOMAIN ws /\ Token(ws, pos + 1) = "(" /\ Token(ws, pos) \notin {"(", "true", "false"} ->
             Called(lex, ws[pos], ParseArgs(ws, pos + 2, <<>>))
      [] OTHER -> Failed
Negated(inner) == IF inner.ok THEN Done(<<"NOT", inner.tree>>, inner.pos) ELSE Failed
ParseNot(lex, ws, pos) ==
    IF Token(ws, pos) = "NOT" THEN Negated(ParseAtom(lex, ws, pos + 1)) ELSE ParseAtom(lex, ws, pos)
Joined(op, left, right) == IF right.ok THEN Done(<<op, left.tree, right.tree>>, right.pos) ELSE Failed
AndRest(lex, ws, left) ==
    IF left.ok /\ Token(ws, left.pos) = "AND"
    THEN AndRest(lex, ws, Joined("AND", left, ParseNot(lex, ws, left.pos + 1)))
    ELSE left
ParseAnd(lex, ws, pos) == AndRest(lex, ws, ParseNot(lex, ws, pos))
OrRest(lex, ws, left) ==
    IF left.ok /\ Token(ws, left.pos) = "OR"
    THEN OrRest(lex, ws, Joined("OR", left, ParseAnd(lex, ws, left.pos + 1)))
    ELSE left
ParseOr(lex, ws, pos) == OrRest(lex, ws, ParseAnd(lex, ws, pos))

(* parse: nothing may be left over. *)
Parse(lex, ws) ==
    LET all == ParseOr(lex, ws, 1) IN IF all.ok /\ all.pos = Len(ws) + 1 THEN <<all.tree>> ELSE <<>>
-----------------------------------------------------------------------------
(* evaluate.  An actor is [scopes, tags, attrs, carried, kind, owns, hour,    *)
(* gameHour]; gameHour is -1 where there is no clock.                         *)
InWindow(start, end, hour) ==
    IF start <= end THEN hour >= start /\ hour < end ELSE hour >= start \/ hour < end

RECURSIVE Evaluate(_, _, _)
Evaluate(lex, tree, actor) ==
    LET args == tree[2]
        From(i) == lex.hours[Word(args[i])]
    IN  CASE tree[1] = "true" -> TRUE
          [] tree[1] = "false" -> FALSE
          [] tree[1] = "perm" -> Word(args[1]) \in actor.scopes \/ "admin" \in actor.scopes
          [] tree[1] = "has_tag" -> Word(args[1]) \in actor.tags
          [] tree[1] = "has_attr" ->
                 /\ Word(args[1]) \in DOMAIN actor.attrs
                 /\ Len(args) = 2 => actor.attrs[Word(args[1])] = Word(args[2])
          [] tree[1] = "in_inventory" -> Word(args[1]) \in actor.carried
          [] tree[1] = "is_kind" -> Word(args[1]) = actor.kind
          [] tree[1] = "is_owner" -> actor.owns
          [] tree[1] = "time_between" -> InWindow(From(1), From(2), actor.hour)
          [] tree[1] = "game_time_between" ->
                 actor.gameHour # -1 /\ InWindow(From(1), From(2), actor.gameHour)
          [] tree[1] = "AND" -> Evaluate(lex, tree[2], actor) /\ Evaluate(lex, tree[3], actor)
          [] tree[1] = "OR" -> Evaluate(lex, tree[2], actor) \/ Evaluate(lex, tree[3], actor)
          [] tree[1] = "NOT" -> ~Evaluate(lex, tree[2], actor)

(* check_lock: a lock that cannot be read lets nobody in.                     *)
CheckLock(lex, ws, actor) ==
    LET trees == Parse(lex, ws) IN trees # <<>> /\ Evaluate(lex, trees[1], actor)
-----------------------------------------------------------------------------
(* The grammar, as the values a stretch of words can have: {} if it is no     *)
(* expression of the kind, one value if it is, two if it were ambiguous.      *)
RECURSIVE Values(_, _)
Values(kind, ws) ==
    LET n == Len(ws)
        Parts(op, left, right, Op(_, _)) ==
            UNION {{Op(x, y) : x \in Values(left, SubSeq(ws, 1, i - 1)), y \in Values(right, SubSeq(ws, i + 1, n))} :
                      i \in {j \in DOMAIN ws : ws[j] = op}}
    IN  IF n = 0 THEN {}
        ELSE CASE kind = "or" ->
                      Values("and", ws) \cup Parts("OR", "or", "and", LAMBDA x, y : x \/ y)
               [] kind = "and" ->
                      Values("not", ws) \cup Parts("AND", "and", "not", LAMBDA x, y : x /\ y)
               [] kind = "not" ->
                      Values("atom", ws)
                      \cup (IF ws[1] = "NOT" THEN {~x : x \in Values("atom", SubSeq(ws, 2, n))} ELSE {})
               [] kind = "atom" ->
                      IF ws = <<"true">> THEN {TRUE} ELSE IF ws = <<"false">> THEN {FALSE}
                      ELSE IF ws[1] = "(" /\ ws[n] = ")" THEN Values("or", SubSeq(ws, 2, n - 1)) ELSE {}

(* What the parser accepts and makes of words without functions is what the   *)
(* grammar says: exactly the expressions, each with its one value.            *)
AgreeOnGrammar(lex, ws, actor) ==
    Values("or", ws) =
        IF Parse(lex, ws) = <<>> THEN {} ELSE {CheckLock(lex, ws, actor)}

(* A window of hours is what one counts through from its start to before its  *)
(* end, past midnight if need be; from an hour to itself it is empty.         *)
AgreeOnWindow(start, end, hour) ==
    InWindow(start, end, hour)
    <=> \E k \in 0..23 : (start + k) % 24 = hour /\ \A j \in 0..k : (start + j) % 24 # end
=============================================================================
