------------------------------ MODULE Template ------------------------------
(***************************************************************************)
(* The interpreter of broker templates (pkg/workflow/template.go): Build,  *)
(* which links the rows of blocks to each other (IndexRun), and            *)
(* TemplateRuntime.Execute, which runs rows until the end, an error, a     *)
(* return or a sendsync, and resumes after the sendsync with its answer.   *)
(*                                                                         *)
(* A row is one {{...}} of the template: its function, whether evaluating  *)
(* it succeeds, and what the value means for the control: the truth of an  *)
(* if, the length of a range, the receiver of a send.  "open" stands for   *)
(* the other functions of OPEN_EXP (get, put, merge, wait, ...), whose     *)
(* block is skipped when they fail; "plain" for the functions that open    *)
(* no block.  Variables are abstracted to the depth of their scopes.       *)
(***************************************************************************)
EXTENDS Naturals, Sequences, SequencesExt

OpenExp == {"if", "range", "open"}

Row(op, ok, n, to) == [op |-> op, ok |-> ok, n |-> n, to |-> to]

-----------------------------------------------------------------------------
(* Template.Build: for each row of a block the next row of that block; 0   *)
(* where a row belongs to none.                                            *)
Link(rows, acc, i) ==
  LET op == rows[i].op
      linked == [acc.run EXCEPT ![Last(acc.stack)] = i]
  IN IF op \in OpenExp THEN [acc EXCEPT !.stack = Append(@, i)]
     ELSE IF op \in {"elseif", "else", "break"}
     THEN [run |-> linked, stack |-> Append(Front(acc.stack), i)]
     ELSE IF op = "end" THEN [run |-> linked, stack |-> Front(acc.stack)]
     ELSE acc

Build(rows) ==
  FoldLeft(LAMBDA acc, i : Link(rows, acc, i),
           [run |-> [i \in DOMAIN rows |-> 0], stack |-> <<>>],
           [i \in DOMAIN rows |-> i]).run

-----------------------------------------------------------------------------
(* TemplateRuntime.  ranges is rangeStack, which Execute begins empty each *)
(* time; range is RangeValue, which stays.                                 *)
NoRange == [start |-> 0, end |-> 0, len |-> 0, index |-> 0]
NewRuntime == [at |-> 1, depth |-> 1, range |-> NoRange]

\* The next iteration of range r: RangeValue and the entry of rangeStack are
\* one object.
Again(s, r) ==
  LET next == [r EXCEPT !.index = @ + 1]
  IN [s EXCEPT !.idx = r.start + 1, !.range = next, !.depth = @ + 1,
               !.ranges = IF @ # <<>> /\ Last(@).start = r.start
                          THEN Append(Front(@), next) ELSE @]

More(r) == r.index < r.len

\* A range row whose value could be evaluated.
EnterRange(s, run) ==
  LET r == [start |-> s.idx, end |-> run[s.idx], len |-> s.row.n, index |-> 0]
  IN IF r.len = 0 THEN [s EXCEPT !.range = r, !.idx = r.end]
     ELSE [s EXCEPT !.range = [r EXCEPT !.index = 1], !.idx = @ + 1,
                    !.ranges = Append(@, [r EXCEPT !.index = 1])]

\* The last iteration left out.
EndRow_short(s) ==
  LET t == [s EXCEPT !.depth = @ - 1, !.idx = @ + 1]
  IN IF s.range.end = s.idx /\ s.range.index + 1 < s.range.len THEN Again(t, s.range) ELSE t

\* An end row: the end of RangeValue begins the next iteration of it or of
\* the range around it.
EndRow(s) ==
  LET t == [s EXCEPT !.depth = @ - 1, !.idx = @ + 1]
      outer == Front(s.ranges)
  IN IF s.range.end # s.idx THEN t
     ELSE IF More(s.range) THEN Again(t, s.range)
     ELSE IF s.ranges = <<>> THEN t
     ELSE IF outer = <<>> THEN [t EXCEPT !.ranges = <<>>, !.range = NoRange]
     ELSE IF More(Last(outer))
     THEN Again([t EXCEPT !.ranges = outer, !.depth = @ - 1], Last(outer))
     ELSE [t EXCEPT !.ranges = outer, !.range = Last(outer)]

\* One row.  at is expIndex, which only the sends move; stop says why Execute returns: a sendsync, an error it reports
\* in Tracking.Err, or anything else.
Step(s, run) ==
  LET row == s.row
      next == [s EXCEPT !.idx = @ + 1]
      skip == [s EXCEPT !.idx = run[s.idx] + 1]
      sent == [next EXCEPT !.at = next.idx, !.flows = Append(@, [to |-> row.to, send |-> row.op])]
  IN CASE row.op \in {"send", "sendu"} -> IF row.ok THEN sent ELSE [s EXCEPT !.stop = "quit"]
       [] row.op = "sendsync" -> IF row.ok THEN [sent EXCEPT !.stop = "sync"]
                                 ELSE [s EXCEPT !.stop = "quit"]
       [] row.op = "return" -> [s EXCEPT !.stop = "quit"]
       [] row.op = "end" -> EndRow(s)
       [] row.op = "else" -> [s EXCEPT !.idx = run[s.idx]]
       [] row.op = "break" -> [skip EXCEPT !.range = NoRange]
       [] row.op = "range" /\ row.ok -> EnterRange(s, run)
       [] row.op = "if" /\ row.ok -> IF row.n = 0 THEN skip ELSE next
       [] row.op \in OpenExp /\ ~row.ok -> skip
       [] row.op = "elseif" -> IF row.ok THEN next ELSE skip
       [] row.op = "plain" /\ ~row.ok -> [s EXCEPT !.stop = "error"]
       [] OTHER -> next

\* Rows until Execute returns.  (t ranges over one state: TLC then evaluates
\* each row once.)
RECURSIVE Loop(_, _, _)
Loop(exps, run, s) ==
  IF s.stop # "no" \/ s.idx > Len(exps) THEN s
  ELSE LET row == exps[s.idx]
           opened == [s EXCEPT !.row = row,
                               !.depth = IF row.op \in OpenExp THEN @ + 1 ELSE @]
       IN CHOOSE end \in {Loop(exps, run, t) : t \in {Step(opened, run)}} : TRUE

\* TemplateRuntime.Execute: what it delivers, whether it reports an error, and
\* the runtime as it leaves it.
Execute(exps, run, rt) ==
  LET s == Loop(exps, run,
                [row |-> Row("plain", TRUE, 0, ""), idx |-> rt.at, at |-> rt.at,
                 range |-> rt.range, ranges |-> <<>>, depth |-> rt.depth,
                 flows |-> <<>>, stop |-> "no"])
  IN [flows |-> s.flows, err |-> s.stop = "error", sync |-> s.stop = "sync",
      rt |-> [at |-> s.at, depth |-> s.depth, range |-> s.range]]

-----------------------------------------------------------------------------
(* What a template says, read as the block structure its author writes: a  *)
(* statement is a row with the statements of its block, of its elseif (at  *)
(* most one) and of its else.                                              *)
Stmt(row, body, elseif, other) ==
  [row |-> row, body |-> body, elseif |-> elseif, other |-> other]

RECURSIVE Rows(_)
Rows(stmts) ==
  LET s == Head(stmts)
      sep(op) == <<Row(op, TRUE, 0, "")>>
      block == Rows(s.body)
               \o FoldLeft(LAMBDA rs, e : rs \o <<e.row>> \o Rows(e.body), <<>>, s.elseif)
               \o (IF s.other = <<>> THEN <<>> ELSE sep("else") \o Rows(s.other))
               \o sep("end")
  IN IF stmts = <<>> THEN <<>>
     ELSE <<s.row>> \o (IF s.row.op \in OpenExp THEN block ELSE <<>>) \o Rows(Tail(stmts))

\* The receivers in order, and how the statements end: "on", "break" or "stop".
RECURSIVE Meaning(_)
Meaning(stmts) ==
  LET s == Head(stmts)
      row == s.row
      then(m, rest) == IF m.ends # "on" THEN m
                       ELSE LET r == Meaning(rest) IN [r EXCEPT !.out = m.out \o @]
      leaf(out, ends) == [out |-> out, ends |-> ends]
      chosen == IF row.n # 0 THEN s.body
                ELSE IF s.elseif # <<>> /\ s.elseif[1].row.n # 0 THEN s.elseif[1].body
                ELSE s.other
      rounds == FlattenSeq([k \in 1 .. row.n |-> s.body])
      looped == Meaning(rounds)
      m == CASE row.op \in {"send", "sendu", "sendsync"} ->
                  IF row.ok THEN leaf(<<row.to>>, "on") ELSE leaf(<<>>, "stop")
             [] row.op = "return" -> leaf(<<>>, "stop")
             [] row.op = "break" -> leaf(<<>>, "break")
             [] row.op = "plain" -> leaf(<<>>, IF row.ok THEN "on" ELSE "stop")
             [] row.op \in OpenExp /\ ~row.ok -> Meaning(s.other)
             [] row.op = "if" -> Meaning(chosen)
             [] row.op = "open" -> Meaning(s.body)
             [] OTHER -> IF looped.ends = "break" THEN [looped EXCEPT !.ends = "on"] ELSE looped
  IN IF stmts = <<>> THEN [out |-> <<>>, ends |-> "on"] ELSE then(m, Tail(stmts))

====
