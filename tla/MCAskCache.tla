------------------------------ MODULE MCAskCache -------------------------------
(* AskCache on a small instance.                                           *)
(*                                                                         *)
(* Two states are one if they differ only in what no later step and no     *)
(* property can tell apart:                                                *)
(*   - an answer whose versions its session has left behind (they come     *)
(*     back only by a purge, which forgets the answer) or that was purged; *)
(*   - what an answer was made from while the property that compares it    *)
(*     waits for a bump: the bump leaves the answer behind;                *)
(*   - an entry of the cache, or one about to be written, that no request  *)
(*     at rest will read;                                                  *)
(*   - which of its earlier shapes a table is described by: shapes only    *)
(*     grow, so no earlier one will be the table's again.                  *)
EXTENDS AskCache, TLC

Symmetry ==
  Permutations(Sessions) \union Permutations(Askers) \union Permutations(Writers)

SeenShape(s, x) == IF x \in {shape[s], NoShape} THEN x ELSE MaxShape + 2

SeenAnswer(e, sv, bv) ==
  LET s == e.session
  IN IF e = NoAnswer THEN e
     ELSE IF e.purged \/ sv < version[s] \/ bv < termVersion[s] THEN Old(s)
     ELSE [e EXCEPT !.term = IF told[s] THEN @ ELSE 0,
                    !.schema = IF announced[s] THEN SeenShape(s, @) ELSE NoShape,
                    !.ran = IF announced[s] THEN SeenShape(s, @) ELSE NoShape]

SeenRequest(r) ==
  IF r.at = "idle" THEN r
  ELSE [r EXCEPT !.answer =
          SeenAnswer(r.answer, r.sv,
                     IF r.kind = "ask" THEN r.bv ELSE MaxEdits)]

SeenChange(d) ==
  IF d.at # "read" THEN d
  ELSE [d EXCEPT !.seen = IF d.alone THEN SeenShape(d.session, @) ELSE 0]

SeenEntry(s) ==
  IF settled[s] \/ known[s] = NoShape THEN SeenShape(s, known[s]) ELSE 0

View ==
  << shape, version, announced, settled, words, fail,
     [s \in Sessions |-> SeenEntry(s)],
     [k \in DOMAIN query |-> SeenAnswer(query[k], k[1], k[2])],
     [k \in DOMAIN notes |-> SeenAnswer(notes[k], k[3], MaxEdits)],
     [c \in Askers |-> SeenRequest(request[c])],
     [w \in Writers |-> SeenChange(change[w])] >>

=============================================================================
