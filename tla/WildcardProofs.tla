--------------------------- MODULE WildcardProofs ---------------------------
(***************************************************************************)
(* wildcard_match_impl is right for every pattern and every text: it       *)
(* returns true exactly when a way to cut the text into pieces exists.     *)
(* The argument is the one for remembering only the last star: what lies   *)
(* before it has been matched as far left as it can be, so whatever a      *)
(* later match would leave to the last star, it can take itself.           *)
(*                                                                         *)
(* Then the pattern itself, before the loop: tokenize_pattern on escaped   *)
(* and on wildcard-free text, and the literal fast path of match_string.   *)
(***************************************************************************)
EXTENDS Pattern, SequenceTheorems, WellFoundedInduction, TLAPS

-----------------------------------------------------------------------------
(* How a match unfolds, one token at a time.                                *)

\* With no token left only the empty rest of the text is covered.
LEMMA CoversEnd ==
    ASSUME NEW p \in Seq(PatTokens), NEW t \in Seq(Chars), NEW j \in 0..Len(t)
    PROVE  Covers(p, t, Len(p), j) <=> j = Len(t)
<1>1. ASSUME Covers(p, t, Len(p), j) PROVE j = Len(t)
  BY <1>1 DEF Covers
<1>2. ASSUME j = Len(t) PROVE Covers(p, t, Len(p), j)
  <2> DEFINE cut == [k \in Len(p)..Len(p) |-> j]
  <2>1. cut \in [Len(p)..Len(p) -> 0..Len(t)] /\ cut[Len(p)] = Len(t)
    BY <1>2
  <2>2. Len(p)..(Len(p) - 1) = {}
    OBVIOUS
  <2>3. QED  BY <1>2, <2>1, <2>2 DEF Covers
<1>3. QED  BY <1>1, <1>2

\* The first token takes a piece, the others the rest.
LEMMA CoversNext ==
    ASSUME NEW p \in Seq(PatTokens), NEW t \in Seq(Chars),
           NEW i \in 0..(Len(p) - 1), NEW j \in 0..Len(t)
    PROVE  Covers(p, t, i, j) <=>
             \E u \in 0..Len(t) : Takes(p[i + 1], t, j, u) /\ Covers(p, t, i + 1, u)
<1>1. ASSUME Covers(p, t, i, j)
      PROVE  \E u \in 0..Len(t) : Takes(p[i + 1], t, j, u) /\ Covers(p, t, i + 1, u)
  <2>1. PICK cut \in [i..Len(p) -> 0..Len(t)] :
            /\ cut[i] = j /\ cut[Len(p)] = Len(t)
            /\ \A k \in i..(Len(p) - 1) : Takes(p[k + 1], t, cut[k], cut[k + 1])
    BY <1>1 DEF Covers
  <2> DEFINE rest == [k \in (i + 1)..Len(p) |-> cut[k]]
  <2>2. i \in i..(Len(p) - 1) /\ i + 1 \in i..Len(p) /\ i + 1 \in (i + 1)..Len(p)
    OBVIOUS
  <2>3. cut[i + 1] \in 0..Len(t) /\ Takes(p[i + 1], t, j, cut[i + 1])
    BY <2>1, <2>2
  <2>4. rest \in [(i + 1)..Len(p) -> 0..Len(t)]
    OBVIOUS
  <2>5. rest[i + 1] = cut[i + 1] /\ rest[Len(p)] = Len(t)
    BY <2>1, <2>2
  <2>6. ASSUME NEW k \in (i + 1)..(Len(p) - 1)
        PROVE  Takes(p[k + 1], t, rest[k], rest[k + 1])
    <3>1. k \in i..(Len(p) - 1) /\ rest[k] = cut[k] /\ rest[k + 1] = cut[k + 1]
      OBVIOUS
    <3>2. QED  BY <2>1, <3>1
  <2>7. Covers(p, t, i + 1, cut[i + 1])
    BY <2>4, <2>5, <2>6 DEF Covers
  <2>8. QED  BY <2>3, <2>7
<1>2. ASSUME NEW u \in 0..Len(t), Takes(p[i + 1], t, j, u), Covers(p, t, i + 1, u)
      PROVE  Covers(p, t, i, j)
  <2>1. PICK rest \in [(i + 1)..Len(p) -> 0..Len(t)] :
            /\ rest[i + 1] = u /\ rest[Len(p)] = Len(t)
            /\ \A k \in (i + 1)..(Len(p) - 1) : Takes(p[k + 1], t, rest[k], rest[k + 1])
    BY <1>2 DEF Covers
  <2> DEFINE cut == [k \in i..Len(p) |-> IF k = i THEN j ELSE rest[k]]
  <2>2. cut \in [i..Len(p) -> 0..Len(t)]
    OBVIOUS
  <2>3. cut[i] = j /\ cut[Len(p)] = Len(t)
    BY <2>1
  <2>4. ASSUME NEW k \in i..(Len(p) - 1)
        PROVE  Takes(p[k + 1], t, cut[k], cut[k + 1])
    <3>1. CASE k = i
      <4>1. cut[k] = j /\ cut[k + 1] = u
        BY <2>1, <3>1
      <4>2. QED  BY <1>2, <3>1, <4>1
    <3>2. CASE k # i
      <4>1. k \in (i + 1)..(Len(p) - 1) /\ cut[k] = rest[k] /\ cut[k + 1] = rest[k + 1]
        BY <3>2
      <4>2. QED  BY <2>1, <4>1
    <3>3. QED  BY <3>1, <3>2
  <2>5. QED  BY <2>2, <2>3, <2>4 DEF Covers
<1>3. QED  BY <1>1, <1>2

\* A token that is no star takes exactly the next character.
LEMMA CoversOne ==
    ASSUME NEW p \in Seq(PatTokens), NEW t \in Seq(Chars),
           NEW i \in 0..(Len(p) - 1), NEW j \in 0..Len(t), p[i + 1] # Star
    PROVE  Covers(p, t, i, j) <=>
             j < Len(t) /\ Accepts(p[i + 1], t[j + 1]) /\ Covers(p, t, i + 1, j + 1)
BY CoversNext DEF Takes

\* A star takes any piece.
LEMMA CoversStar ==
    ASSUME NEW p \in Seq(PatTokens), NEW t \in Seq(Chars),
           NEW i \in 0..(Len(p) - 1), NEW j \in 0..Len(t), p[i + 1] = Star
    PROVE  Covers(p, t, i, j) <=> \E u \in j..Len(t) : Covers(p, t, i + 1, u)
<1>1. ~ \E c \in Chars : Accepts(Star, c)
  BY DEF Accepts, Star, Question, Lit
<1>2. \A u \in 0..Len(t) : Takes(Star, t, j, u) <=> j <= u
  BY <1>1 DEF Takes
<1>3. QED  BY <1>2, CoversNext

-----------------------------------------------------------------------------
(* The inductive invariant.                                                 *)

\* How far the attempt after the last star has come.
Ahead == pi - star_pat_idx - 1

\* Before the first star everything matched so far was forced.
NoStarYet ==
    pc = "loop" /\ star_pat_idx = NoStar =>
        (Matches(pattern, text) <=> Covers(pattern, text, pi, ti))

\* After a star: a match exists iff the rest of the pattern matches from some place
\* the star can still reach; wherever that is, the tokens of this attempt take as
\* many characters there; and where the attempt stands, it has used them up.
AfterStar ==
    pc = "loop" /\ star_pat_idx # NoStar =>
        /\ star_pat_idx < pi
        /\ ti = star_txt_idx + Ahead
        /\ Matches(pattern, text) <=>
              \E k \in star_txt_idx..tlen : Covers(pattern, text, star_pat_idx + 1, k)
        /\ \A k \in star_txt_idx..tlen :
              Covers(pattern, text, star_pat_idx + 1, k) =>
                  k + Ahead <= tlen /\ Covers(pattern, text, pi, k + Ahead)
        /\ Covers(pattern, text, pi, ti) =>
              Covers(pattern, text, star_pat_idx + 1, star_txt_idx)

\* The text is consumed: what is left of the pattern decides.
Trailing ==
    pc = "trailing" =>
        /\ ti = tlen
        /\ Matches(pattern, text) <=> Covers(pattern, text, pi, tlen)

IInv == TypeOK /\ NoStarYet /\ AfterStar /\ Trailing /\ VerdictRight

-----------------------------------------------------------------------------
\* The sequences of a state, for the lemmas about them.
LEMMA Shapes ==
    ASSUME TypeOK
    PROVE  /\ pattern \in Seq(PatTokens) /\ text \in Seq(Chars)
           /\ plen \in Nat /\ tlen \in Nat /\ NoStar \notin Nat
           /\ pi \in Nat /\ ti \in Nat /\ star_txt_idx \in Nat
           /\ star_pat_idx \in Int
BY TokensAssumption, TextsAssumption DEF TypeOK, plen, tlen, NoStar

\* The loop starts with nothing matched.
LEMMA InitInv == Init => IInv
<1> SUFFICES ASSUME Init PROVE IInv
  OBVIOUS
<1>1. Len(pattern) \in Nat /\ Len(text) \in Nat
  BY TokensAssumption, TextsAssumption DEF Init
<1>2. pi \in 0..plen /\ ti \in 0..tlen /\ star_txt_idx \in 0..tlen
  BY <1>1 DEF Init, plen, tlen
<1>3. TypeOK
  BY <1>2 DEF Init, TypeOK
<1>4. NoStarYet /\ AfterStar /\ Trailing /\ VerdictRight
  BY DEF Init, NoStarYet, AfterStar, Trailing, VerdictRight, Matches
<1>5. QED  BY <1>3, <1>4 DEF IInv

\* The attempt after a star has come some way, or nowhere yet.
LEMMA AheadNat ==
    ASSUME TypeOK, star_pat_idx < pi
    PROVE  Ahead \in Nat
<1>1. pi \in Int /\ star_pat_idx \in Int
  BY Shapes
<1>2. QED  BY <1>1 DEF Ahead

\* A character that fits keeps the matched part as far left as it can be.
LEMMA AdvanceInv == IInv /\ Advance => IInv'
<1> SUFFICES ASSUME IInv, Advance PROVE IInv'
  OBVIOUS
<1> USE DEF IInv, plen, tlen
<1> DEFINE p == pattern  t == text
<1>0. p' = p /\ t' = t /\ p \in Seq(PatTokens) /\ t \in Seq(Chars)
  BY Shapes DEF Advance
<1>1. pi \in 0..(Len(p) - 1) /\ ti \in 0..(Len(t) - 1) /\ p[pi + 1] # Star
      /\ Accepts(p[pi + 1], t[ti + 1])
  <2>1. pi \in 0..(Len(p) - 1) /\ ti \in 0..(Len(t) - 1) /\ Accepts(p[pi + 1], t[ti + 1])
    BY Shapes DEF Advance, CanAccept, TypeOK
  <2>2. p[pi + 1] # Star
    BY <2>1 DEF Accepts, Star, Question, Lit
  <2>3. QED  BY <2>1, <2>2
<1>2. \A x \in 0..Len(t) :
        Covers(p, t, pi, x) => x < Len(t) /\ Covers(p, t, pi + 1, x + 1)
  BY <1>0, <1>1, CoversOne
<1>3. Covers(p, t, pi, ti) <=> Covers(p, t, pi + 1, ti + 1)
  BY <1>0, <1>1, CoversOne
<1>4. TypeOK'
  BY <1>0, <1>1 DEF Advance, TypeOK
<1>5. NoStarYet'
  BY <1>0, <1>3 DEF Advance, NoStarYet
<1>6. AfterStar'
  <2> SUFFICES ASSUME star_pat_idx # NoStar PROVE AfterStar'
    BY DEF Advance, AfterStar
  <2> DEFINE s == star_pat_idx  x == star_txt_idx
  <2>1. /\ pc = "loop" /\ pc' = "loop" /\ s' = s /\ x' = x /\ pi' = pi + 1 /\ ti' = ti + 1
        /\ Ahead' = Ahead + 1 /\ Ahead \in Int /\ s \in Int /\ x \in Nat
    BY Shapes DEF Advance, Ahead
  <2>2. /\ s < pi /\ ti = x + Ahead
        /\ Matches(p, t) <=> \E k \in x..Len(t) : Covers(p, t, s + 1, k)
        /\ \A k \in x..Len(t) : Covers(p, t, s + 1, k) =>
              k + Ahead <= Len(t) /\ Covers(p, t, pi, k + Ahead)
        /\ Covers(p, t, pi, ti) => Covers(p, t, s + 1, x)
    BY <2>1 DEF AfterStar
  <2>3. ASSUME NEW k \in x..Len(t), Covers(p, t, s + 1, k)
        PROVE  k + (Ahead + 1) <= Len(t) /\ Covers(p, t, pi + 1, k + (Ahead + 1))
    <3>0. Ahead \in Nat
      BY <2>2, AheadNat
    <3>1. k + Ahead \in 0..Len(t) /\ Covers(p, t, pi, k + Ahead)
      BY <3>0, <2>1, <2>2, <2>3, Shapes
    <3>2. k + Ahead < Len(t) /\ Covers(p, t, pi + 1, (k + Ahead) + 1)
      BY <1>2, <3>1
    <3>3. (k + Ahead) + 1 = k + (Ahead + 1)
      BY <2>1
    <3>4. QED  BY <3>2, <3>3, <2>1, Shapes
  <2>4. Covers(p, t, pi + 1, ti + 1) => Covers(p, t, s + 1, x)
    BY <1>3, <2>2
  <2>5. s < pi + 1 /\ ti + 1 = x + (Ahead + 1)
    BY <2>1, <2>2, Shapes
  <2>6. QED  BY <1>0, <2>1, <2>2, <2>3, <2>4, <2>5 DEF AfterStar
<1>7. Trailing' /\ VerdictRight'
  BY DEF Advance, Trailing, VerdictRight
<1>8. QED  BY <1>4, <1>5, <1>6, <1>7

\* A star makes a new place to return to, and no match is lost.
LEMMA TakeStarInv == IInv /\ TakeStar => IInv'
<1> SUFFICES ASSUME IInv, TakeStar PROVE IInv'
  OBVIOUS
<1> USE DEF IInv, plen, tlen
<1> DEFINE p == pattern  t == text
<1>0. p' = p /\ t' = t /\ p \in Seq(PatTokens) /\ t \in Seq(Chars)
  BY Shapes DEF TakeStar
<1>1. pi \in 0..(Len(p) - 1) /\ ti \in 0..(Len(t) - 1) /\ p[pi + 1] = Star
  BY Shapes DEF TakeStar, AtStar, TypeOK
<1>2. \A x \in 0..Len(t) : Covers(p, t, pi, x) <=> \E u \in x..Len(t) : Covers(p, t, pi + 1, u)
  BY <1>0, <1>1, CoversStar
<1>3. TypeOK'
  BY <1>0, <1>1 DEF TakeStar, TypeOK
<1>4. Matches(p, t) <=> \E u \in ti..Len(t) : Covers(p, t, pi + 1, u)
  <2>1. Covers(p, t, pi, ti) <=> \E u \in ti..Len(t) : Covers(p, t, pi + 1, u)
    BY <1>1, <1>2
  <2>2. CASE star_pat_idx = NoStar
    BY <2>1, <2>2 DEF TakeStar, NoStarYet
  <2>3. CASE star_pat_idx # NoStar
    <3> DEFINE s == star_pat_idx  x == star_txt_idx
    <3>1. /\ s < pi /\ ti = x + Ahead
          /\ Matches(p, t) <=> \E k \in x..Len(t) : Covers(p, t, s + 1, k)
          /\ \A k \in x..Len(t) : Covers(p, t, s + 1, k) =>
                k + Ahead <= Len(t) /\ Covers(p, t, pi, k + Ahead)
          /\ Covers(p, t, pi, ti) => Covers(p, t, s + 1, x)
      BY <2>3 DEF TakeStar, AfterStar
    <3>2. Ahead \in Nat /\ x \in 0..Len(t) /\ Len(t) \in Nat /\ ti \in Nat
      BY <3>1, AheadNat, Shapes DEF TypeOK
    <3>3. ASSUME NEW k \in x..Len(t), Covers(p, t, s + 1, k)
          PROVE  \E u \in ti..Len(t) : Covers(p, t, pi + 1, u)
      <4>1. k + Ahead \in ti..Len(t) /\ Covers(p, t, pi, k + Ahead)
        BY <3>1, <3>2, <3>3
      <4>2. k + Ahead \in 0..Len(t)
        BY <3>2, <4>1
      <4>3. PICK u \in (k + Ahead)..Len(t) : Covers(p, t, pi + 1, u)
        BY <1>2, <4>1, <4>2
      <4>4. u \in ti..Len(t)
        BY <3>2, <4>1, <4>2
      <4>5. QED  BY <4>3, <4>4
    <3>4. x \in x..Len(t)
      BY <3>2
    <3>5. QED  BY <2>1, <3>1, <3>3, <3>4
  <2>4. QED  BY <2>2, <2>3
<1>5. AfterStar'
  <2>1. /\ star_pat_idx' = pi /\ star_txt_idx' = ti /\ pi' = pi + 1 /\ ti' = ti
        /\ pi \in Nat /\ ti \in Nat /\ Ahead' = 0
    BY Shapes DEF TakeStar, Ahead
  <2>2. star_pat_idx' < pi' /\ ti' = star_txt_idx' + Ahead'
    BY <2>1
  <2>3. \A k \in ti..Len(t) : k + 0 = k /\ k <= Len(t)
    BY <1>0, <2>1
  <2>4. QED  BY <1>0, <1>4, <2>1, <2>2, <2>3 DEF AfterStar
<1>6. NoStarYet' /\ Trailing' /\ VerdictRight'
  <2>1. pi # NoStar
    BY Shapes
  <2>2. QED  BY <2>1 DEF TakeStar, NoStarYet, Trailing, VerdictRight
<1>7. QED  BY <1>3, <1>5, <1>6

\* Where the loop can neither advance nor take a star, nothing can match.
LEMMA Stuck ==
    ASSUME TypeOK, ti < tlen, ~CanAccept, ~AtStar
    PROVE  ~Covers(pattern, text, pi, ti)
<1> USE DEF plen, tlen
<1>1. pattern \in Seq(PatTokens) /\ text \in Seq(Chars) /\ Len(pattern) \in Nat /\ ti \in 0..Len(text)
      /\ pi \in 0..Len(pattern)
  BY Shapes DEF TypeOK
<1>2. CASE pi = Len(pattern)
  <2>1. Covers(pattern, text, Len(pattern), ti) <=> ti = Len(text)
    BY <1>1, CoversEnd
  <2>2. QED  BY <1>1, <1>2, <2>1
<1>3. CASE pi # Len(pattern)
  <2>1. pi \in 0..(Len(pattern) - 1)
    BY <1>1, <1>3
  <2>2. pattern[pi + 1] # Star /\ ~Accepts(pattern[pi + 1], text[ti + 1])
    BY <2>1 DEF AtStar, CanAccept
  <2>3. QED  BY <1>1, <2>1, <2>2, CoversOne
<1>4. QED  BY <1>2, <1>3

\* Returning to the last star loses no match either.
LEMMA BacktrackInv == IInv /\ Backtrack => IInv'
<1> SUFFICES ASSUME IInv, Backtrack PROVE IInv'
  OBVIOUS
<1> USE DEF IInv, plen, tlen
<1> DEFINE p == pattern  t == text  s == star_pat_idx  x == star_txt_idx
<1>0. p' = p /\ t' = t /\ p \in Seq(PatTokens) /\ t \in Seq(Chars) /\ Len(t) \in Nat
      /\ Len(p) \in Nat
  BY Shapes DEF Backtrack
<1>1. /\ s < pi /\ ti = x + Ahead
      /\ Matches(p, t) <=> \E k \in x..Len(t) : Covers(p, t, s + 1, k)
      /\ \A k \in x..Len(t) : Covers(p, t, s + 1, k) =>
            k + Ahead <= Len(t) /\ Covers(p, t, pi, k + Ahead)
  BY DEF Backtrack, AfterStar
<1>2. Ahead \in Nat /\ x \in Nat /\ ti \in Nat /\ ti < Len(t) /\ x < Len(t) /\ x \in x..Len(t)
  <2>1. Ahead \in Nat /\ x \in Nat /\ ti \in Nat /\ ti < Len(t)
    BY <1>1, AheadNat, Shapes DEF Backtrack
  <2>2. QED  BY <1>0, <1>1, <2>1
<1>3. s \in 0..(Len(p) - 1)
  BY DEF Backtrack, TypeOK
<1>4. ~Covers(p, t, s + 1, x)
  <2>1. ~Covers(p, t, pi, ti)
    BY Stuck DEF Backtrack
  <2>2. QED  BY <1>1, <1>2, <2>1
<1>5. TypeOK'
  <2>1. s + 1 \in 0..Len(p) /\ x + 1 \in 0..Len(t)
    BY <1>0, <1>2, <1>3
  <2>2. QED  BY <1>0, <2>1 DEF Backtrack, TypeOK
<1>6. AfterStar'
  <2>1. /\ s' = s /\ x' = x + 1 /\ pi' = s + 1 /\ ti' = x + 1 /\ Ahead' = 0 /\ pc' = "loop"
    BY <1>3 DEF Backtrack, Ahead
  <2>2. s < s + 1 /\ x + 1 = (x + 1) + 0
    BY <1>2, <1>3
  <2>3. \A k \in (x + 1)..Len(t) : k + 0 = k /\ k <= Len(t) /\ k \in x..Len(t)
    BY <1>0, <1>2
  <2>4. \A k \in x..Len(t) : k = x \/ k \in (x + 1)..Len(t)
    BY <1>0, <1>2
  <2>5. Matches(p, t) <=> \E k \in (x + 1)..Len(t) : Covers(p, t, s + 1, k)
    BY <1>1, <1>4, <2>3, <2>4
  <2>6. QED  BY <1>0, <2>1, <2>2, <2>3, <2>5 DEF AfterStar
<1>7. NoStarYet' /\ Trailing' /\ VerdictRight'
  BY DEF Backtrack, NoStarYet, Trailing, VerdictRight
<1>8. QED  BY <1>5, <1>6, <1>7

\* Without a star to return to nothing can match.
LEMMA GiveUpInv == IInv /\ GiveUp => IInv'
<1> SUFFICES ASSUME IInv, GiveUp PROVE IInv'
  OBVIOUS
<1> USE DEF IInv, plen, tlen
<1>1. ~Covers(pattern, text, pi, ti)
  BY Stuck DEF GiveUp
<1>2. ~Matches(pattern, text)
  BY <1>1 DEF GiveUp, NoStarYet
<1>3. TypeOK'
  BY DEF GiveUp, TypeOK
<1>4. VerdictRight'
  BY <1>2 DEF GiveUp, VerdictRight
<1>5. NoStarYet' /\ AfterStar' /\ Trailing'
  BY DEF GiveUp, NoStarYet, AfterStar, Trailing
<1>6. QED  BY <1>3, <1>4, <1>5

\* At the end of the text what is left of the pattern decides.
LEMMA TextConsumedInv == IInv /\ TextConsumed => IInv'
<1> SUFFICES ASSUME IInv, TextConsumed PROVE IInv'
  OBVIOUS
<1> USE DEF IInv, plen, tlen
<1> DEFINE p == pattern  t == text
<1>0. p' = p /\ t' = t /\ Len(t) \in Nat /\ ti = Len(t) /\ pi' = pi
  BY Shapes DEF TextConsumed, TypeOK
<1>1. TypeOK'
  BY DEF TextConsumed, TypeOK
<1>2. Matches(p, t) <=> Covers(p, t, pi, Len(t))
  <2>1. CASE star_pat_idx = NoStar
    BY <1>0, <2>1 DEF TextConsumed, NoStarYet
  <2>2. CASE star_pat_idx # NoStar
    <3> DEFINE s == star_pat_idx  x == star_txt_idx
    <3>1. /\ s < pi /\ ti = x + Ahead
          /\ Matches(p, t) <=> \E k \in x..Len(t) : Covers(p, t, s + 1, k)
          /\ \A k \in x..Len(t) : Covers(p, t, s + 1, k) =>
                k + Ahead <= Len(t) /\ Covers(p, t, pi, k + Ahead)
          /\ Covers(p, t, pi, ti) => Covers(p, t, s + 1, x)
      BY <2>2 DEF TextConsumed, AfterStar
    <3>2. Ahead \in Nat /\ x \in 0..Len(t) /\ x \in x..Len(t)
      <4>1. Ahead \in Nat /\ x \in 0..Len(t)
        BY <3>1, AheadNat DEF TypeOK
      <4>2. QED  BY <1>0, <4>1
    <3>3. ASSUME NEW k \in x..Len(t), Covers(p, t, s + 1, k)
          PROVE  Covers(p, t, pi, Len(t))
      <4>1. k + Ahead <= Len(t) /\ Covers(p, t, pi, k + Ahead)
        BY <3>1, <3>3
      <4>2. k + Ahead = Len(t)
        BY <1>0, <3>1, <3>2, <4>1
      <4>3. QED  BY <4>1, <4>2
    <3>4. QED  BY <1>0, <3>1, <3>2, <3>3
  <2>3. QED  BY <2>1, <2>2
<1>3. Trailing'
  BY <1>0, <1>2 DEF TextConsumed, Trailing
<1>4. NoStarYet' /\ AfterStar' /\ VerdictRight'
  BY DEF TextConsumed, NoStarYet, AfterStar, VerdictRight
<1>5. QED  BY <1>1, <1>3, <1>4

\* Stars at the end take nothing.
LEMMA SkipTrailingStarInv == IInv /\ SkipTrailingStar => IInv'
<1> SUFFICES ASSUME IInv, SkipTrailingStar PROVE IInv'
  OBVIOUS
<1> USE DEF IInv, plen, tlen
<1> DEFINE p == pattern  t == text
<1>0. p' = p /\ t' = t /\ p \in Seq(PatTokens) /\ t \in Seq(Chars) /\ Len(t) \in Nat
  BY Shapes DEF SkipTrailingStar
<1>1. pi \in 0..(Len(p) - 1) /\ p[pi + 1] = Star
  BY Shapes DEF SkipTrailingStar, AtStar, TypeOK
<1>2. Len(t) \in 0..Len(t) /\ Len(t)..Len(t) = {Len(t)}
  BY <1>0
<1>3. Covers(p, t, pi, Len(t)) <=> Covers(p, t, pi + 1, Len(t))
  BY <1>0, <1>1, <1>2, CoversStar
<1>4. TypeOK'
  BY <1>0, <1>1 DEF SkipTrailingStar, TypeOK
<1>5. Trailing'
  BY <1>0, <1>3 DEF SkipTrailingStar, Trailing
<1>6. NoStarYet' /\ AfterStar' /\ VerdictRight'
  BY DEF SkipTrailingStar, NoStarYet, AfterStar, VerdictRight
<1>7. QED  BY <1>4, <1>5, <1>6

\* What is returned is whether the pattern is used up.
LEMMA ReturnInv == IInv /\ Return => IInv'
<1> SUFFICES ASSUME IInv, Return PROVE IInv'
  OBVIOUS
<1> USE DEF IInv, plen, tlen
<1> DEFINE p == pattern  t == text
<1>0. p \in Seq(PatTokens) /\ t \in Seq(Chars) /\ Len(t) \in 0..Len(t) /\ pi \in 0..Len(p)
  BY Shapes DEF TypeOK
<1>1. Covers(p, t, pi, Len(t)) <=> pi = Len(p)
  <2>1. CASE pi = Len(p)
    <3>1. Covers(p, t, Len(p), Len(t))
      BY <1>0, CoversEnd
    <3>2. QED  BY <2>1, <3>1
  <2>2. CASE pi # Len(p)
    <3>1. pi \in 0..(Len(p) - 1) /\ pi < Len(p)
      BY <1>0, <2>2
    <3>2. p[pi + 1] # Star
      BY <3>1 DEF Return, AtStar
    <3>3. ~(Len(t) < Len(t))
      BY <1>0
    <3>4. QED  BY <1>0, <2>2, <3>1, <3>2, <3>3, CoversOne
  <2>3. QED  BY <2>1, <2>2
<1>2. Matches(p, t) <=> pi = Len(p)
  BY <1>1 DEF Return, Trailing
<1>3. TypeOK'
  <2>1. (pi = Len(p)) \in BOOLEAN
    OBVIOUS
  <2>2. QED  BY <2>1 DEF Return, TypeOK
<1>4. VerdictRight'
  BY <1>2 DEF Return, VerdictRight
<1>5. NoStarYet' /\ AfterStar' /\ Trailing'
  BY DEF Return, NoStarYet, AfterStar, Trailing
<1>6. QED  BY <1>3, <1>4, <1>5

-----------------------------------------------------------------------------
\* The invariant speaks of the variables only.
LEMMA StutterInv == IInv /\ UNCHANGED vars => IInv'
BY DEF IInv, vars, TypeOK, NoStarYet, AfterStar, Trailing, VerdictRight, plen, tlen, Ahead

\* Every step of the loop keeps the invariant.
LEMMA StepInv == IInv /\ [Next]_vars => IInv'
BY AdvanceInv, TakeStarInv, BacktrackInv, GiveUpInv, TextConsumedInv,
   SkipTrailingStarInv, ReturnInv, StutterInv DEF Next, Step, Returned

\* The invariant holds throughout.
LEMMA Invariance == Spec => []IInv
<1>1. QED  BY InitInv, StepInv, PTL DEF Spec

\* Whatever the pattern and the text, both pointers stay within their bounds: no turn
\* of wildcard_match_impl reads a token or a character that is not there.
THEOREM WildcardTyping == Spec => []TypeOK
<1>1. IInv => TypeOK
  BY DEF IInv
<1>2. QED  BY Invariance, <1>1, PTL

\* Whatever the pattern and the text, wildcard_match_impl returns true exactly when a
\* cut of the text into pieces its tokens take exists.
THEOREM WildcardIsExact == Spec => []VerdictRight
<1>1. IInv => VerdictRight
  BY DEF IInv
<1>2. QED  BY Invariance, <1>1, PTL

-----------------------------------------------------------------------------
(* Induction over the places of a sequence.  What a recursion computes is   *)
(* proved of the set of places where it holds.                              *)

\* Induction on the numbers of an interval, for the places of a set.
LEMMA Upwards ==
    ASSUME NEW n \in Nat, NEW G, 0 \in G, \A k \in 0..(n - 1) : k \in G => k + 1 \in G
    PROVE  0..n \subseteq G
<1> DEFINE T == {k \in 0..n : k \notin G}
<1>1. SUFFICES ASSUME T # {} PROVE FALSE
  OBVIOUS
<1>2. PICK m \in T : \A k \in T : <<k, m>> \notin OpToRel(<, Nat)
  <2>1. T \subseteq Nat
    OBVIOUS
  <2> HIDE DEF T
  <2> QED  BY <1>1, <2>1, WFMin, NatLessThanWellFounded, Zenon
<1>3. \A k \in T : ~(k < m)
  <2>1. T \subseteq Nat
    OBVIOUS
  <2> HIDE DEF T
  <2> QED  BY <1>2, <2>1, Zenon DEF OpToRel
<1>4. m - 1 \in 0..(n - 1) /\ m - 1 < m /\ m - 1 \notin T /\ (m - 1) + 1 = m
  BY <1>3
<1> QED  BY <1>4

\* The same from the last place to the first.
LEMMA Downwards ==
    ASSUME NEW n \in Nat, NEW G, n + 1 \in G, \A k \in 1..n : k + 1 \in G => k \in G
    PROVE  1..(n + 1) \subseteq G
<1> DEFINE H == {k \in 0..n : n + 1 - k \in G}
<1>1. 0 \in H
  OBVIOUS
<1>2. ASSUME NEW k \in 0..(n - 1), k \in H PROVE k + 1 \in H
  <2>1. n - k \in 1..n /\ (n - k) + 1 = n + 1 - k /\ n + 1 - (k + 1) = n - k
    OBVIOUS
  <2>2. n - k \in G
    BY <1>2, <2>1
  <2> QED  BY <2>1, <2>2
<1> HIDE DEF H
<1>3. 0..n \subseteq H
  BY <1>1, <1>2, Upwards
<1>4. ASSUME NEW i \in 1..(n + 1) PROVE i \in G
  <2>1. n + 1 - i \in H /\ n + 1 - (n + 1 - i) = i
    BY <1>3
  <2> QED  BY <2>1 DEF H
<1> QED  BY <1>4

-----------------------------------------------------------------------------
(* What tokenize_pattern computes: its recursion has a value at every place. *)

TokensOver(S) == {Star, Question} \union {Lit(c) : c \in S}

\* One place of the recursion, from the places after it.
TokenStep(p, f, i) ==
    IF i > Len(p) THEN <<>>
    ELSE IF EscapesNext(p, i) THEN <<Lit(p[i + 1])>> \o f[i + 2]
    ELSE <<Token(p[i])>> \o f[i + 1]

\* What tokenize_pattern writes at a place is a list of tokens, if what follows is.
LEMMA TokenStepType ==
    ASSUME NEW S, NEW p \in Seq(S), NEW i \in 1..(Len(p) + 1), NEW f,
           i <= Len(p) => f[i + 1] \in Seq(TokensOver(S)),
           i < Len(p) => f[i + 2] \in Seq(TokensOver(S))
    PROVE  TokenStep(p, f, i) \in Seq(TokensOver(S))
<1>1. CASE i > Len(p)
  BY <1>1 DEF TokenStep
<1>2. CASE i <= Len(p) /\ EscapesNext(p, i)
  <2>1. i < Len(p) /\ p[i + 1] \in S
    BY <1>2 DEF EscapesNext
  <2>2. <<Lit(p[i + 1])>> \in Seq(TokensOver(S))
    BY <2>1 DEF TokensOver
  <2>3. TokenStep(p, f, i) = <<Lit(p[i + 1])>> \o f[i + 2]
    BY <1>2 DEF TokenStep
  <2> QED  BY <2>1, <2>2, <2>3, ConcatProperties
<1>3. CASE i <= Len(p) /\ ~EscapesNext(p, i)
  <2>1. p[i] \in S
    BY <1>3
  <2>2. Token(p[i]) \in TokensOver(S)
    BY <2>1 DEF TokensOver, Token
  <2>3. <<Token(p[i])>> \in Seq(TokensOver(S))
    BY <2>2
  <2>4. TokenStep(p, f, i) = <<Token(p[i])>> \o f[i + 1]
    BY <1>3 DEF TokenStep
  <2> QED  BY <1>3, <2>3, <2>4, ConcatProperties
<1> QED  BY <1>1, <1>2, <1>3

\* tokenize_pattern is a recursion from the end of the pattern.
LEMMA TokenizeUnfolds ==
    ASSUME NEW S, NEW p \in Seq(S)
    PROVE  \E f \in [1..(Len(p) + 1) -> Seq(TokensOver(S))] :
              /\ \A i \in 1..(Len(p) + 1) : f[i] = TokenStep(p, f, i)
              /\ tokenize_pattern(p) = f[1]
<1> DEFINE n == Len(p)
           T == Seq(TokensOver(S))
           G == {k \in 1..(n + 1) : \E f \in [1..(n + 1) -> T] :
                    \A i \in k..(n + 1) : f[i] = TokenStep(p, f, i)}
           tok == CHOOSE from : from = [i \in 1..(n + 1) |-> TokenStep(p, from, i)]
<1>0. n \in Nat
  OBVIOUS
<1>1. n + 1 \in G
  <2> DEFINE f0 == [i \in 1..(n + 1) |-> << >>]
  <2>1. f0 \in [1..(n + 1) -> T]
    OBVIOUS
  <2>2. \A i \in (n + 1)..(n + 1) : f0[i] = TokenStep(p, f0, i)
    BY <1>0 DEF TokenStep
  <2> HIDE DEF f0
  <2> QED  BY <1>0, <2>1, <2>2
<1>2. ASSUME NEW k \in 1..n, k + 1 \in G PROVE k \in G
  <2>1. PICK f \in [1..(n + 1) -> T] : \A i \in (k + 1)..(n + 1) : f[i] = TokenStep(p, f, i)
    BY <1>2
  <2> DEFINE g == [f EXCEPT ![k] = TokenStep(p, f, k)]
  <2>2. TokenStep(p, f, k) \in T
    <3>1. k \in 1..(n + 1) /\ f[k + 1] \in T /\ (k < n => f[k + 2] \in T)
      BY <1>0
    <3> QED  BY <3>1, TokenStepType
  <2>3. g \in [1..(n + 1) -> T] /\ g[k] = TokenStep(p, f, k)
        /\ \A i \in 1..(n + 1) : i # k => g[i] = f[i]
    BY <1>0, <2>2
  <2> HIDE DEF g
  <2>4. ASSUME NEW i \in k..(n + 1) PROVE g[i] = TokenStep(p, g, i)
    <3>1. (i <= n => g[i + 1] = f[i + 1]) /\ (EscapesNext(p, i) => g[i + 2] = f[i + 2])
      BY <1>0, <2>3 DEF EscapesNext
    <3>2. TokenStep(p, g, i) = TokenStep(p, f, i)
      BY <1>0, <3>1 DEF TokenStep
    <3>3. i # k => f[i] = TokenStep(p, f, i) /\ g[i] = f[i]
      BY <1>0, <2>1, <2>3
    <3> QED  BY <2>3, <3>2, <3>3
  <2> QED  BY <1>0, <2>3, <2>4
<1>3. PICK f \in [1..(n + 1) -> T] : \A i \in 1..(n + 1) : f[i] = TokenStep(p, f, i)
  <2>1. 1 \in 1..(n + 1)
    BY <1>0
  <2> HIDE DEF G
  <2>2. 1 \in G
    BY <1>0, <1>1, <1>2, <2>1, Downwards
  <2> QED  BY <2>2 DEF G
<1>4. tok = [i \in 1..(n + 1) |-> TokenStep(p, tok, i)]
  <2>1. f = [i \in 1..(n + 1) |-> TokenStep(p, f, i)]
    BY <1>3
  <2> QED  BY <2>1
<1>5. tokenize_pattern(p) = tok[1]
  BY DEF tokenize_pattern, TokenStep
<1> HIDE DEF tok
<1>6. \A i \in 1..(n + 1) : tok[i] = TokenStep(p, tok, i)
  BY <1>4
<1> DEFINE Typed == {i \in 1..(n + 1) : \A j \in i..(n + 1) : tok[j] \in T}
<1>7. n + 1 \in Typed
  <2>1. n + 1 \in 1..(n + 1) /\ (n + 1)..(n + 1) = {n + 1}
    BY <1>0
  <2>2. TokenStep(p, tok, n + 1) = << >> /\ << >> \in T
    BY <1>0 DEF TokenStep
  <2>3. tok[n + 1] \in T
    BY <1>6, <2>1, <2>2
  <2> QED  BY <2>1, <2>3
<1>8. ASSUME NEW k \in 1..n, k + 1 \in Typed PROVE k \in Typed
  <2>1. k \in 1..(n + 1) /\ tok[k + 1] \in T /\ (k < n => tok[k + 2] \in T)
    BY <1>0, <1>8
  <2>2. tok[k] \in T
    BY <1>6, <2>1, TokenStepType
  <2> QED  BY <1>0, <1>8, <2>2
<1>9. 1 \in Typed
  <2> HIDE DEF Typed
  <2> QED  BY <1>0, <1>7, <1>8, Downwards
<1>10. tok \in [1..(n + 1) -> T]
  <2>1. \A j \in 1..(n + 1) : TokenStep(p, tok, j) \in T
    BY <1>6, <1>9
  <2>2. [i \in 1..(n + 1) |-> TokenStep(p, tok, i)] \in [1..(n + 1) -> T]
    BY <2>1
  <2> QED  BY <1>4, <2>2
<1> QED  BY <1>5, <1>6, <1>10

-----------------------------------------------------------------------------
(* A run of literal tokens takes the characters it spells, and those alone. *)

\* The n tokens of p after the first a spell l.
Spell(p, a, n, l) == \A m \in 1..n : p[a + m] = Lit(l[m])

\* l is what the text holds after its first j characters.
Holds(t, j, n, l) == j + n <= Len(t) /\ \A m \in 1..n : t[j + m] = l[m]

\* A run of literal tokens takes exactly the characters it spells.
LEMMA CoversLiterals ==
    ASSUME NEW p \in Seq(PatTokens), NEW t \in Seq(Chars),
           NEW a \in 0..Len(p), NEW n \in 0..(Len(p) - a), NEW l, Spell(p, a, n, l),
           NEW j \in 0..Len(t)
    PROVE  Covers(p, t, a, j) <=> Holds(t, j, n, l) /\ Covers(p, t, a + n, j + n)
<1> USE DEF Spell, Holds
<1> DEFINE Taken(k) == j + k <= Len(t) /\ (\A m \in 1..k : t[j + m] = l[m])
                        /\ Covers(p, t, a + k, j + k)
           G == {k \in 0..n : Covers(p, t, a, j) <=> Taken(k)}
<1>0. n \in Nat /\ a \in Nat /\ j \in Nat /\ Len(t) \in Nat /\ Len(p) \in Nat /\ a + n <= Len(p)
  OBVIOUS
<1>1. 0 \in G
  <2>1. a + 0 = a /\ j + 0 = j /\ 0 \in 0..n /\ 1..0 = {}
    BY <1>0
  <2> QED  BY <1>0, <2>1
<1>2. ASSUME NEW k \in 0..(n - 1), k \in G PROVE k + 1 \in G
  <2>1. /\ k \in Nat /\ k + 1 \in 0..n /\ k + 1 \in 1..n /\ a + k \in 0..(Len(p) - 1)
        /\ a + (k + 1) = (a + k) + 1 /\ j + (k + 1) = (j + k) + 1
    BY <1>0
  <2>2. p[(a + k) + 1] = Lit(l[k + 1])
    BY <2>1
  <2>3. p[(a + k) + 1] # Star /\ \A c : Accepts(p[(a + k) + 1], c) <=> c = l[k + 1]
    BY <2>2 DEF Accepts, Star, Question, Lit
  <2>4. j + k <= Len(t) =>
          (Covers(p, t, a + k, j + k) <=>
             j + k < Len(t) /\ t[(j + k) + 1] = l[k + 1]
             /\ Covers(p, t, (a + k) + 1, (j + k) + 1))
    <3> SUFFICES ASSUME j + k <= Len(t) PROVE (Covers(p, t, a + k, j + k) <=>
             j + k < Len(t) /\ t[(j + k) + 1] = l[k + 1]
             /\ Covers(p, t, (a + k) + 1, (j + k) + 1))
      OBVIOUS
    <3>1. j + k \in 0..Len(t)
      BY <1>0, <2>1
    <3> QED  BY <2>1, <2>3, <3>1, CoversOne
  <2>5. (\A m \in 1..(k + 1) : t[j + m] = l[m])
          <=> (\A m \in 1..k : t[j + m] = l[m]) /\ t[(j + k) + 1] = l[k + 1]
    <3>1. \A m : m \in 1..(k + 1) <=> m \in 1..k \/ m = k + 1
      BY <2>1
    <3>2. t[j + (k + 1)] = t[(j + k) + 1]
      BY <2>1
    <3> DEFINE Same(m) == t[j + m] = l[m]
    <3>3. Same(k + 1) <=> t[(j + k) + 1] = l[k + 1]
      BY <3>2
    <3> HIDE DEF Same
    <3>4. (\A m \in 1..(k + 1) : Same(m)) <=> (\A m \in 1..k : Same(m)) /\ Same(k + 1)
      BY <3>1
    <3> QED  BY <3>3, <3>4 DEF Same
  <2>6. j + (k + 1) <= Len(t) <=> j + k <= Len(t) /\ j + k < Len(t)
    BY <1>0, <2>1
  <2>7. Taken(k + 1) <=> Taken(k)
    BY <2>1, <2>4, <2>5, <2>6
  <2> HIDE DEF Taken
  <2> QED  BY <1>2, <2>1, <2>7
<1>3. n \in G
  <2>1. n \in 0..n
    BY <1>0
  <2> HIDE DEF G
  <2>2. 0..n \subseteq G
    BY <1>0, <1>1, <1>2, Upwards
  <2> QED  BY <2>1, <2>2
<1> QED  BY <1>3

\* A pattern has a list of tokens.
LEMMA TokenizeType ==
    ASSUME NEW S, NEW p \in Seq(S)
    PROVE  tokenize_pattern(p) \in Seq(TokensOver(S)) /\ Len(tokenize_pattern(p)) \in Nat
<1>1. PICK f \in [1..(Len(p) + 1) -> Seq(TokensOver(S))] : tokenize_pattern(p) = f[1]
  BY TokenizeUnfolds
<1>2. 1 \in 1..(Len(p) + 1)
  OBVIOUS
<1>3. tokenize_pattern(p) \in Seq(TokensOver(S))
  BY <1>1, <1>2
<1> QED  BY <1>3, LenProperties

\* A literal is tokenized to the characters that pattern_literal gives.
LEMMA LiteralTokens ==
    ASSUME NEW S, NEW p \in Seq(S), IsLiteral(p)
    PROVE  /\ Len(pattern_literal(p)) = Len(tokenize_pattern(p))
           /\ \A i \in 1..Len(tokenize_pattern(p)) :
                tokenize_pattern(p)[i] = Lit(pattern_literal(p)[i])
<1>1. tokenize_pattern(p) \in Seq(TokensOver(S)) /\ Len(tokenize_pattern(p)) \in Nat
  BY TokenizeType
<1>2. ASSUME NEW i \in 1..Len(tokenize_pattern(p))
      PROVE  tokenize_pattern(p)[i] = Lit(tokenize_pattern(p)[i].lit)
  <2>1. tokenize_pattern(p)[i] \in TokensOver(S)
    BY <1>1, ElementOfSeq
  <2>2. PICK c \in S : tokenize_pattern(p)[i] = Lit(c)
    BY <2>1 DEF IsLiteral, TokensOver
  <2> QED  BY <2>2 DEF Lit
<1> QED  BY <1>1, <1>2 DEF pattern_literal

\* Two sequences put together, each with its own places.
LEMMA Joining ==
    ASSUME NEW S, NEW s \in Seq(S), NEW t \in Seq(S)
    PROVE  /\ s \o t \in Seq(S)
           /\ Len(s) \in Nat /\ Len(t) \in Nat
           /\ Len(s \o t) = Len(s) + Len(t)
           /\ \A m \in 1..Len(s) : (s \o t)[m] = s[m]
           /\ \A m \in 1..Len(t) : (s \o t)[Len(s) + m] = t[m]
<1>1. Len(s) \in Nat /\ Len(t) \in Nat
  BY LenProperties
<1>2. \A m \in 1..Len(s) : m \in 1..(Len(s) + Len(t)) /\ m <= Len(s)
  BY <1>1
<1>3. \A m \in 1..Len(t) : /\ Len(s) + m \in 1..(Len(s) + Len(t)) /\ ~(Len(s) + m <= Len(s))
                           /\ (Len(s) + m) - Len(s) = m
  BY <1>1
<1> QED  BY <1>1, <1>2, <1>3, ConcatProperties

\* The shape of what wildcard_match_wrapped_tokens is given.
LEMMA WrappedShape ==
    ASSUME NEW p \in Seq(Chars), NEW mode,
           NEW b \in {0, 1}, b = 1 <=> StarBefore(mode),
           NEW a \in {0, 1}, a = 1 <=> StarAfter(mode)
    PROVE  LET n == Len(tokenize_pattern(p)) IN
           /\ Wrapped(p, mode) \in Seq(PatTokens)
           /\ n \in Nat
           /\ Len(Wrapped(p, mode)) = b + n + a
           /\ \A m \in 1..n : Wrapped(p, mode)[b + m] = tokenize_pattern(p)[m]
           /\ b = 1 => Wrapped(p, mode)[1] = Star
           /\ a = 1 => Wrapped(p, mode)[b + n + 1] = Star
<1> DEFINE tok == tokenize_pattern(p)
           B == IF StarBefore(mode) THEN <<Star>> ELSE << >>
           A == IF StarAfter(mode) THEN <<Star>> ELSE << >>
<1>1. tok \in Seq(PatTokens) /\ Len(tok) \in Nat
  <2>1. TokensOver(Chars) = PatTokens
    BY DEF TokensOver, PatTokens
  <2> QED  BY <2>1, TokenizeType
<1>2. /\ B \in Seq(PatTokens) /\ Len(B) = b /\ (b = 1 => B[1] = Star)
      /\ A \in Seq(PatTokens) /\ Len(A) = a /\ (a = 1 => A[1] = Star)
  <2>1. /\ <<Star>> \in Seq(PatTokens) /\ Len(<<Star>>) = 1 /\ <<Star>>[1] = Star
        /\ << >> \in Seq(PatTokens) /\ Len(<< >>) = 0
    BY DEF PatTokens
  <2>2. b \in Nat /\ a \in Nat /\ (b # 1 => b = 0) /\ (a # 1 => a = 0)
    OBVIOUS
  <2> QED  BY <2>1, <2>2
<1>3. Wrapped(p, mode) = (B \o tok) \o A
  <2> SUFFICES B \o tok \o A = (B \o tok) \o A
    BY Zenon DEF Wrapped
  <2> QED  OBVIOUS
<1> HIDE DEF A, B, tok
<1>4. /\ B \o tok \in Seq(PatTokens) /\ Len(B \o tok) = b + Len(tok)
      /\ \A m \in 1..b : (B \o tok)[m] = B[m]
      /\ \A m \in 1..Len(tok) : (B \o tok)[b + m] = tok[m]
  BY <1>1, <1>2, Joining
<1> DEFINE BT == B \o tok
<1> HIDE DEF BT
<1>5. /\ BT \o A \in Seq(PatTokens) /\ Len(BT \o A) = (b + Len(tok)) + a
      /\ \A m \in 1..(b + Len(tok)) : (BT \o A)[m] = BT[m]
      /\ \A m \in 1..a : (BT \o A)[(b + Len(tok)) + m] = A[m]
  <2>1. BT \in Seq(PatTokens) /\ Len(BT) = b + Len(tok)
    BY <1>4 DEF BT
  <2> QED  BY <1>2, <2>1, Joining
<1>7. ASSUME NEW m \in 1..Len(tok) PROVE (BT \o A)[b + m] = tok[m]
  <2>1. b + m \in 1..(b + Len(tok))
    BY <1>1
  <2> QED  BY <1>4, <1>5, <2>1 DEF BT
<1>8. b = 1 => (BT \o A)[1] = Star
  <2>1. b = 1 => 1 \in 1..b /\ 1 \in 1..(b + Len(tok))
    BY <1>1
  <2> QED  BY <1>2, <1>4, <1>5, <2>1 DEF BT
<1>9. a = 1 => (BT \o A)[(b + Len(tok)) + 1] = Star
  <2>1. a = 1 => 1 \in 1..a
    OBVIOUS
  <2> QED  BY <1>2, <1>5, <2>1
<1>10. Wrapped(p, mode) = BT \o A
  BY <1>3 DEF BT
<1> QED  BY <1>1, <1>5, <1>7, <1>8, <1>9, <1>10 DEF tok

\* The literal fast path is the wildcard match it stands in for.
LEMMA LiteralIsWildcardFree ==
    ASSUME NEW p \in Seq(Chars), IsLiteral(p), NEW mode \in Modes, NEW t \in Seq(Chars)
    PROVE  Matches(Wrapped(p, mode), t) <=> LiteralMatches(p, mode, t)
<1> DEFINE P == Wrapped(p, mode)
           tok == tokenize_pattern(p)
           lit == pattern_literal(p)
           n == Len(tok)
           b == IF StarBefore(mode) THEN 1 ELSE 0
           a == IF StarAfter(mode) THEN 1 ELSE 0
           Here(x) == Holds(t, x, n, lit)
<1>0. /\ b \in {0, 1} /\ (b = 1 <=> StarBefore(mode))
      /\ a \in {0, 1} /\ (a = 1 <=> StarAfter(mode))
  OBVIOUS
<1> HIDE DEF a, b
<1>1. /\ P \in Seq(PatTokens) /\ n \in Nat
      /\ Len(P) = b + n + a
      /\ \A m \in 1..n : P[b + m] = tok[m]
      /\ StarBefore(mode) => P[1] = Star
      /\ StarAfter(mode) => P[(b + n) + 1] = Star
  BY <1>0, WrappedShape
<1>2. Len(lit) = n /\ \A m \in 1..n : tok[m] = Lit(lit[m])
  BY LiteralTokens
<1> HIDE DEF P, tok, lit, n
<1>3. b \in Nat /\ Len(t) \in Nat /\ Len(P) \in Nat /\ b \in 0..Len(P) /\ n \in 0..(Len(P) - b)
      /\ b + n \in 0..Len(P)
  BY <1>0, <1>1
<1>4. ASSUME NEW x \in 0..Len(t)
      PROVE  Covers(P, t, b, x) <=> Here(x) /\ Covers(P, t, b + n, x + n)
  <2>1. Spell(P, b, n, lit)
    BY <1>1, <1>2 DEF Spell
  <2> QED  BY <1>1, <1>3, <2>1, CoversLiterals
<1>5. ASSUME NEW y \in 0..Len(t)
      PROVE  Covers(P, t, b + n, y) <=> StarAfter(mode) \/ y = Len(t)
  <2>1. CASE StarAfter(mode)
    <3>1. b + n \in 0..(Len(P) - 1) /\ P[(b + n) + 1] = Star /\ Len(P) = (b + n) + 1
      BY <1>0, <1>1, <1>3, <2>1
    <3>2. Len(t) \in y..Len(t) /\ Len(t) \in 0..Len(t)
      BY <1>3
    <3>3. Covers(P, t, Len(P), Len(t))
      BY <1>1, <3>2, CoversEnd
    <3> QED  BY <1>1, <2>1, <3>1, <3>2, <3>3, CoversStar
  <2>2. CASE ~StarAfter(mode)
    <3>1. b + n = Len(P)
      BY <1>0, <1>1, <1>3, <2>2
    <3> QED  BY <1>1, <2>2, <3>1, CoversEnd
  <2> QED  BY <2>1, <2>2
<1>6. Matches(P, t) <=>
        \E x \in 0..Len(t) : (StarBefore(mode) \/ x = 0) /\ Covers(P, t, b, x)
  <2>1. CASE StarBefore(mode)
    <3>1. 0 \in 0..(Len(P) - 1) /\ P[0 + 1] = Star /\ b = 0 + 1 /\ 0 \in 0..Len(t)
      BY <1>0, <1>1, <1>3, <2>1
    <3> QED  BY <1>1, <2>1, <3>1, CoversStar DEF Matches
  <2>2. CASE ~StarBefore(mode)
    <3>1. b = 0 /\ 0 \in 0..Len(t)
      BY <1>0, <1>3, <2>2
    <3> QED  BY <2>2, <3>1 DEF Matches
  <2> QED  BY <2>1, <2>2
<1>7. Matches(P, t) <=>
        \E x \in 0..Len(t) : /\ StarBefore(mode) \/ x = 0
                             /\ Here(x)
                             /\ StarAfter(mode) \/ x + n = Len(t)
  <2>1. ASSUME NEW x \in 0..Len(t), Here(x) PROVE x + n \in 0..Len(t)
    <3>1. x + n <= Len(t)
      BY <2>1 DEF Holds
    <3> HIDE DEF Here
    <3> QED  BY <1>1, <1>3, <3>1
  <2> HIDE DEF Here
  <2> QED  BY <1>4, <1>5, <1>6, <2>1
<1>8. LiteralMatches(p, mode, t) <=>
        \E x \in 0..(Len(t) - n) :
            /\ mode \in {"exact", "startswith"} => x = 0
            /\ mode \in {"exact", "endswith"} => x = Len(t) - n
            /\ \A m \in 1..n : t[x + m] = lit[m]
  BY <1>2 DEF LiteralMatches, lit
<1>9. \A x : x \in 0..(Len(t) - n) <=> x \in 0..Len(t) /\ x + n <= Len(t)
  BY <1>1, <1>3
<1>10. \A x \in 0..Len(t) : x + n = Len(t) <=> x = Len(t) - n
  BY <1>1, <1>3
<1>11. /\ StarBefore(mode) <=> mode \notin {"exact", "startswith"}
       /\ StarAfter(mode) <=> mode \notin {"exact", "endswith"}
  BY DEF Modes, StarBefore, StarAfter
<1> QED  BY <1>7, <1>8, <1>9, <1>10, <1>11 DEF P, Holds

-----------------------------------------------------------------------------
(* Escaping a text gives a literal that spells it.                          *)

\* How a character is written in a value.
Written(c) == IF c \in Escapable THEN <<"\\", c>> ELSE <<c>>

\* Escape is a recursion from the end of the text.
LEMMA EscapeUnfolds ==
    ASSUME NEW t \in Seq(Chars)
    PROVE  \E f \in [1..(Len(t) + 1) -> Seq(Chars \union {"\\"})] :
              /\ f[Len(t) + 1] = << >>
              /\ \A i \in 1..Len(t) : f[i] = Written(t[i]) \o f[i + 1]
              /\ Escape(t) = f[1]
<1> DEFINE n == Len(t)
           T == Seq(Chars \union {"\\"})
           Place(f, i) == IF i > n THEN << >> ELSE Written(t[i]) \o f[i + 1]
           G == {k \in 1..(n + 1) : \E f \in [1..(n + 1) -> T] :
                    \A i \in k..(n + 1) : f[i] = Place(f, i)}
           esc == CHOOSE from : from = [i \in 1..(n + 1) |-> Place(from, i)]
<1>0. n \in Nat
  OBVIOUS
<1>1. << >> \in T /\ \A f : Place(f, n + 1) = << >>
  BY <1>0
<1>2. ASSUME NEW i \in 1..n, NEW f, f[i + 1] \in T PROVE Place(f, i) \in T
  <2>1. t[i] \in Chars
    OBVIOUS
  <2>2. Written(t[i]) \in T
    <3>1. <<"\\", t[i]>> \in T /\ <<t[i]>> \in T
      BY <2>1
    <3> QED  BY <3>1 DEF Written
  <2>3. Place(f, i) = Written(t[i]) \o f[i + 1]
    <3>1. ~(i > n)
      BY <1>0
    <3> QED  BY <3>1, Zenon
  <2> QED  BY <1>2, <2>2, <2>3, ConcatProperties
<1>3. n + 1 \in G
  <2> DEFINE f0 == [i \in 1..(n + 1) |-> << >>]
  <2>1. f0 \in [1..(n + 1) -> T] /\ f0[n + 1] = << >>
    BY <1>0, <1>1
  <2>2. n + 1 \in 1..(n + 1) /\ (n + 1)..(n + 1) = {n + 1}
    BY <1>0
  <2> HIDE DEF f0, Place
  <2> QED  BY <1>1, <2>1, <2>2
<1>4. ASSUME NEW k \in 1..n, k + 1 \in G PROVE k \in G
  <2>1. PICK f \in [1..(n + 1) -> T] : \A i \in (k + 1)..(n + 1) : f[i] = Place(f, i)
    BY <1>4
  <2> DEFINE g == [f EXCEPT ![k] = Place(f, k)]
  <2>2. Place(f, k) \in T
    <3>1. k + 1 \in 1..(n + 1)
      BY <1>0
    <3> HIDE DEF Place
    <3> QED  BY <1>2, <3>1
  <2>3. g \in [1..(n + 1) -> T] /\ g[k] = Place(f, k)
        /\ \A i \in 1..(n + 1) : i # k => g[i] = f[i]
    BY <1>0, <2>2
  <2> HIDE DEF g
  <2>4. ASSUME NEW i \in k..(n + 1) PROVE g[i] = Place(g, i)
    <3>1. i <= n => g[i + 1] = f[i + 1]
      BY <1>0, <2>3
    <3>2. Place(g, i) = Place(f, i)
      BY <1>0, <3>1
    <3>3. i # k => f[i] = Place(f, i) /\ g[i] = f[i]
      BY <1>0, <2>1, <2>3
    <3> QED  BY <2>3, <3>2, <3>3
  <2> QED  BY <1>0, <2>3, <2>4
<1>5. PICK f \in [1..(n + 1) -> T] : \A i \in 1..(n + 1) : f[i] = Place(f, i)
  <2>1. 1 \in 1..(n + 1)
    BY <1>0
  <2> HIDE DEF G
  <2>2. 1 \in G
    BY <1>0, <1>3, <1>4, <2>1, Downwards
  <2> QED  BY <2>2 DEF G
<1>6. esc = [i \in 1..(n + 1) |-> Place(esc, i)]
  <2>1. f = [i \in 1..(n + 1) |-> Place(f, i)]
    BY <1>5
  <2> QED  BY <2>1
<1>7. Escape(t) = esc[1]
  BY DEF Escape, Written
<1> HIDE DEF esc
<1>8. \A i \in 1..(n + 1) : esc[i] = Place(esc, i)
  BY <1>6
<1> DEFINE Typed == {i \in 1..(n + 1) : esc[i] \in T}
<1>9. n + 1 \in Typed
  <2>1. n + 1 \in 1..(n + 1)
    BY <1>0
  <2> HIDE DEF Place
  <2> QED  BY <1>1, <1>8, <2>1
<1>10. ASSUME NEW k \in 1..n, k + 1 \in Typed PROVE k \in Typed
  <2>1. k \in 1..(n + 1) /\ esc[k + 1] \in T
    BY <1>0, <1>10
  <2> HIDE DEF Place
  <2>2. esc[k] \in T
    BY <1>2, <1>8, <2>1
  <2> QED  BY <2>1, <2>2
<1>11. 1..(n + 1) \subseteq Typed
  <2> HIDE DEF Typed
  <2> QED  BY <1>0, <1>9, <1>10, Downwards
<1>12. esc \in [1..(n + 1) -> T]
  <2>1. \A j \in 1..(n + 1) : Place(esc, j) \in T
    BY <1>8, <1>11
  <2> HIDE DEF Place
  <2>2. [i \in 1..(n + 1) |-> Place(esc, i)] \in [1..(n + 1) -> T]
    BY <2>1
  <2> QED  BY <1>6, <2>2
<1>13. ASSUME NEW i \in 1..n
       PROVE  Place(esc, i) = Written(t[i]) \o esc[i + 1] /\ i \in 1..(n + 1)
  <2>1. ~(i > n) /\ i \in 1..(n + 1)
    BY <1>0
  <2> QED  BY <2>1, Zenon
<1>14. n + 1 \in 1..(n + 1)
  BY <1>0
<1> HIDE DEF Place
<1> QED  BY <1>1, <1>7, <1>8, <1>12, <1>13, <1>14

\* Where a character of the text was written, the tokenizer makes its literal.
WrittenAt(S, e, pre, c, rest, head) ==
    /\ pre \in Seq(S) /\ rest \in Seq(S) /\ Written(c) \in Seq(S)
    /\ e = pre \o (Written(c) \o rest) /\ head = pre \o Written(c)

ReadAt(S, e, pre, c, rest, head, g) ==
    /\ head \in Seq(S) /\ e = head \o rest
    /\ Len(pre) + 1 \in 1..Len(e)
    /\ TokenStep(e, g, Len(pre) + 1) = <<Lit(c)>> \o g[Len(head) + 1]

\* What is written for one character is read as that literal, wherever it stands.
LEMMA WrittenIsRead ==
    ASSUME NEW S, NEW e, NEW pre, NEW c, NEW rest, NEW head, NEW g,
           WrittenAt(S, e, pre, c, rest, head)
    PROVE  ReadAt(S, e, pre, c, rest, head, g)
<1> USE DEF ReadAt
<1> USE DEF WrittenAt
<1>0. head \in Seq(S) /\ e = head \o rest
  BY ConcatProperties, ConcatAssociative
<1> DEFINE o == Len(pre) + 1
<1>1. /\ head \in Seq(S) /\ Len(pre) \in Nat /\ Len(rest) \in Nat
      /\ Len(head) = Len(pre) + Len(Written(c))
      /\ \A m \in 1..Len(Written(c)) : head[Len(pre) + m] = Written(c)[m]
  BY Joining, LenProperties
<1>2. /\ Len(e) = Len(head) + Len(rest)
      /\ \A m \in 1..Len(head) : e[m] = head[m]
  <2>1. head \in Seq(S)
    BY <1>0
  <2>2. /\ Len(head \o rest) = Len(head) + Len(rest)
        /\ \A m \in 1..Len(head) : (head \o rest)[m] = head[m]
    BY <2>1, Joining, Zenon
  <2> QED  BY <1>0, <2>2
<1>3. CASE c \in Escapable
  <2>1. Written(c) = <<"\\", c>>
    BY <1>3 DEF Written
  <2>2. Len(head) = Len(pre) + 2 /\ head[Len(pre) + 1] = "\\" /\ head[Len(pre) + 2] = c
    BY <1>1, <2>1
  <2>3. o \in 1..Len(head) /\ o + 1 \in 1..Len(head) /\ o < Len(e) /\ o + 1 = Len(pre) + 2
        /\ o + 2 = Len(head) + 1 /\ ~(o > Len(e)) /\ o \in 1..Len(e)
    BY <1>1, <1>2, <2>2
  <2>4. e[o] = "\\" /\ e[o + 1] = c
    BY <1>2, <2>2, <2>3
  <2>5. EscapesNext(e, o)
    BY <1>3, <2>3, <2>4 DEF EscapesNext
  <2> HIDE DEF o
  <2>6. TokenStep(e, g, o) = <<Lit(c)>> \o g[Len(head) + 1]
    BY <2>3, <2>4, <2>5 DEF TokenStep
  <2> QED  BY <1>0, <2>3, <2>6 DEF o
<1>4. CASE c \notin Escapable
  <2>1. Written(c) = <<c>>
    BY <1>4 DEF Written
  <2>2. Len(head) = Len(pre) + 1 /\ head[Len(pre) + 1] = c
    BY <1>1, <2>1
  <2>3. o \in 1..Len(head) /\ o + 1 = Len(head) + 1 /\ ~(o > Len(e)) /\ o \in 1..Len(e)
    BY <1>1, <1>2, <2>2
  <2>4. e[o] = c
    BY <1>2, <2>2, <2>3
  <2>5. ~EscapesNext(e, o) /\ Token(e[o]) = Lit(c)
    BY <1>4, <2>4 DEF EscapesNext, Escapable, Token
  <2> HIDE DEF o
  <2>6. TokenStep(e, g, o) = <<Lit(c)>> \o g[Len(head) + 1]
    BY <2>3, <2>5 DEF TokenStep
  <2> QED  BY <1>0, <2>3, <2>6 DEF o
<1> QED  BY <1>3, <1>4

\* An escaped text is read as its characters.
LEMMA EscapedTokens ==
    ASSUME NEW t \in Seq(Chars)
    PROVE  tokenize_pattern(Escape(t)) = [m \in 1..Len(t) |-> Lit(t[m])]
<1> DEFINE n == Len(t)
           S == Chars \union {"\\"}
           e == Escape(t)
           Lits(i) == [m \in 1..(n + 1 - i) |-> Lit(t[i + m - 1])]
<1>0. n \in Nat
  OBVIOUS
<1>1. PICK f \in [1..(n + 1) -> Seq(S)] :
        f[n + 1] = << >> /\ (\A i \in 1..n : f[i] = Written(t[i]) \o f[i + 1]) /\ e = f[1]
  BY EscapeUnfolds
<1>2. \A i \in 1..n : t[i] \in Chars /\ Written(t[i]) \in Seq(S)
  <2> TAKE i \in 1..n
  <2>1. t[i] \in Chars
    OBVIOUS
  <2>2. <<"\\", t[i]>> \in Seq(S) /\ <<t[i]>> \in Seq(S)
    BY <2>1
  <2> QED  BY <2>1, <2>2 DEF Written
<1>3. \A i \in 1..n : Lits(i) = <<Lit(t[i])>> \o Lits(i + 1)
  <2> TAKE i \in 1..n
  <2>1. n + 1 - (i + 1) = n - i /\ n + 1 - i = 1 + (n - i) /\ n - i \in Nat
    BY <1>0
  <2> QED  BY <1>0, <2>1
<1>4. Lits(n + 1) = << >> /\ Lits(1) = [m \in 1..n |-> Lit(t[m])]
  BY <1>0
<1> HIDE DEF e, S, Lits
<1>5. e \in Seq(S) /\ Len(e) \in Nat
  <2>1. 1 \in 1..(n + 1)
    BY <1>0
  <2>2. e \in Seq(S)
    BY <1>1, <2>1
  <2> QED  BY <2>2, LenProperties
<1>6. PICK g \in [1..(Len(e) + 1) -> Seq(TokensOver(S))] :
        (\A i \in 1..(Len(e) + 1) : g[i] = TokenStep(e, g, i)) /\ tokenize_pattern(e) = g[1]
  BY <1>5, TokenizeUnfolds
<1> DEFINE Reads(i) == \A pre \in Seq(S) : e = pre \o f[i] => g[Len(pre) + 1] = Lits(i)
<1>7. Reads(n + 1)
  <2> SUFFICES ASSUME NEW pre \in Seq(S), e = pre \o << >>
               PROVE  g[Len(pre) + 1] = Lits(n + 1)
    BY <1>1
  <2>1. e = pre
    BY ConcatEmptySeq
  <2>2. Len(e) + 1 \in 1..(Len(e) + 1) /\ Len(e) + 1 > Len(e)
    BY <1>5
  <2>3. TokenStep(e, g, Len(e) + 1) = << >>
    BY <2>2 DEF TokenStep
  <2> QED  BY <1>4, <1>6, <2>1, <2>2, <2>3
<1>8. ASSUME NEW k \in 1..n, Reads(k + 1) PROVE Reads(k)
  <2> SUFFICES ASSUME NEW pre \in Seq(S), e = pre \o f[k]
               PROVE  g[Len(pre) + 1] = Lits(k)
    OBVIOUS
  <2>1. Written(t[k]) \in Seq(S) /\ f[k] = Written(t[k]) \o f[k + 1]
    BY <1>1, <1>2
  <2>2. f[k + 1] \in Seq(S)
    <3>1. k + 1 \in 1..(n + 1)
      BY <1>0
    <3> QED  BY <1>1, <3>1
  <2>3. PICK head : head = pre \o Written(t[k])
    OBVIOUS
  <2>4. /\ head \in Seq(S) /\ e = head \o f[k + 1]
        /\ Len(pre) + 1 \in 1..Len(e)
        /\ TokenStep(e, g, Len(pre) + 1) = <<Lit(t[k])>> \o g[Len(head) + 1]
    <3>1. e = pre \o (Written(t[k]) \o f[k + 1])
      BY <2>1
    <3> HIDE DEF Reads
    <3>2. WrittenAt(S, e, pre, t[k], f[k + 1], head)
      BY <2>1, <2>2, <2>3, <3>1 DEF WrittenAt
    <3>3. ReadAt(S, e, pre, t[k], f[k + 1], head, g)
      BY <3>2, WrittenIsRead
    <3> QED  BY <3>3 DEF ReadAt
  <2>5. g[Len(head) + 1] = Lits(k + 1)
    BY <1>8, <2>4
  <2>6. Len(pre) + 1 \in 1..(Len(e) + 1)
    BY <1>5, <2>4
  <2> QED  BY <1>3, <1>6, <2>4, <2>5, <2>6
<1>9. Reads(1)
  <2> DEFINE G == {i \in 1..(n + 1) : Reads(i)}
  <2> HIDE DEF Reads
  <2>1. n + 1 \in G /\ \A k \in 1..n : k + 1 \in G => k \in G
    BY <1>0, <1>7, <1>8
  <2>2. 1 \in 1..(n + 1)
    BY <1>0
  <2> HIDE DEF G
  <2>3. 1 \in G
    BY <1>0, <2>1, <2>2, Downwards
  <2> QED  BY <2>3 DEF G
<1>10. g[1] = Lits(1)
  <2>1. << >> \in Seq(S) /\ Len(<< >>) + 1 = 1 /\ e = << >> \o f[1]
    BY <1>1, <1>5, ConcatEmptySeq
  <2> QED  BY <1>9, <2>1
<1> QED  BY <1>4, <1>6, <1>10 DEF e

\* A pattern of literals alone matches the text they spell.
LEMMA LiteralsMatch ==
    ASSUME NEW s \in Seq(Chars), NEW t \in Seq(Chars)
    PROVE  Matches([m \in 1..Len(s) |-> Lit(s[m])], t) <=> t = s
<1> DEFINE p == [m \in 1..Len(s) |-> Lit(s[m])]
           n == Len(s)
<1>1. p \in Seq(PatTokens) /\ Len(p) = n /\ n \in Nat /\ Len(t) \in Nat
  <2>1. \A m \in 1..n : s[m] \in Chars
    OBVIOUS
  <2> QED  BY <2>1 DEF PatTokens
<1>2. Spell(p, 0, n, s)
  BY <1>1 DEF Spell
<1> HIDE DEF p
<1>3. 0 \in 0..Len(p) /\ n \in 0..(Len(p) - 0) /\ 0 \in 0..Len(t) /\ 0 + n = n
  BY <1>1
<1> HIDE DEF n
<1>4. Matches(p, t) <=> Holds(t, 0, n, s) /\ Covers(p, t, n, n)
  <2>1. Covers(p, t, 0, 0) <=> Holds(t, 0, n, s) /\ Covers(p, t, 0 + n, 0 + n)
    BY <1>1, <1>2, <1>3, CoversLiterals
  <2> QED  BY <1>3, <2>1 DEF Matches
<1>5. Holds(t, 0, n, s) <=> n <= Len(t) /\ \A m \in 1..n : t[m] = s[m]
  BY <1>1 DEF Holds
<1>6. n <= Len(t) => (Covers(p, t, n, n) <=> n = Len(t))
  <2>1. n <= Len(t) => n \in 0..Len(t)
    BY <1>1
  <2> QED  BY <1>1, <2>1, CoversEnd
<1>7. t = s <=> Len(t) = n /\ \A m \in 1..n : t[m] = s[m]
  BY SeqEqual DEF n
<1> QED  BY <1>1, <1>4, <1>5, <1>6, <1>7 DEF p

-----------------------------------------------------------------------------
\* For all values, texts and modifiers, value_matches_* may compare a value without
\* active wildcards as a literal: wildcard_match_impl would answer the same.
THEOREM FastPathIsExact == Spec => []FastPathAgrees
<1>1. TypeOK /\ VerdictRight => FastPathAgrees
  <2> SUFFICES ASSUME TypeOK, VerdictRight, pc = "done",
                      NEW p \in LiteralPatterns, NEW mode \in Modes, pattern = Wrapped(p, mode)
               PROVE  verdict <=> LiteralMatches(p, mode, text)
    BY DEF FastPathAgrees
  <2>1. p \in Seq(Chars) /\ IsLiteral(p) /\ text \in Seq(Chars)
    BY PatternsAssumption, TextsAssumption DEF LiteralPatterns, TypeOK
  <2>2. Matches(Wrapped(p, mode), text) <=> LiteralMatches(p, mode, text)
    BY <2>1, LiteralIsWildcardFree
  <2>3. verdict <=> Matches(Wrapped(p, mode), text)
    BY DEF VerdictRight
  <2> QED  BY <2>2, <2>3
<1>2. QED  BY WildcardTyping, WildcardIsExact, <1>1, PTL

\* For every text, the value that escapes its special characters matches it and no
\* other: tokenize_pattern undoes the escaping, whatever backslashes the text holds.
THEOREM EscapingIsExact == Spec => []EscapedMatchesItself
<1>1. TypeOK /\ VerdictRight => EscapedMatchesItself
  <2> SUFFICES ASSUME TypeOK, VerdictRight, pc = "done",
                      NEW t \in Texts, pattern = tokenize_pattern(Escape(t))
               PROVE  verdict <=> text = t
    BY DEF EscapedMatchesItself
  <2>1. t \in Seq(Chars) /\ text \in Seq(Chars)
    BY TextsAssumption DEF TypeOK
  <2>2. pattern = [m \in 1..Len(t) |-> Lit(t[m])]
    BY <2>1, EscapedTokens
  <2>3. Matches(pattern, text) <=> text = t
    BY <2>1, <2>2, LiteralsMatch
  <2> QED  BY <2>3 DEF VerdictRight
<1>2. QED  BY WildcardTyping, WildcardIsExact, <1>1, PTL
-----------------------------------------------------------------------------

\* The tokens of p from the i-th to the k-th take the characters of t from one place to
\* the other.
Piece(p, t, i, k, from, to) ==
    \E cut \in [i..k -> 0..Len(t)] :
        /\ cut[i] = from /\ cut[k] = to
        /\ \A x \in i..(k - 1) : Takes(p[x + 1], t, cut[x], cut[x + 1])

\* A match is cut in two at any token.
LEMMA CoversSplit ==
    ASSUME NEW p \in Seq(PatTokens), NEW t \in Seq(Chars),
           NEW i \in 0..Len(p), NEW k \in i..Len(p), NEW j \in 0..Len(t)
    PROVE  Covers(p, t, i, j) <=>
             \E u \in 0..Len(t) : Piece(p, t, i, k, j, u) /\ Covers(p, t, k, u)
<1> DEFINE n == Len(p)
           m == Len(t)
<1>0. n \in Nat /\ m \in Nat
  BY LenProperties
<1>1. ASSUME Covers(p, t, i, j)
      PROVE  \E u \in 0..m : Piece(p, t, i, k, j, u) /\ Covers(p, t, k, u)
  <2>1. PICK cut \in [i..n -> 0..m] :
            /\ cut[i] = j /\ cut[n] = m
            /\ \A x \in i..(n - 1) : Takes(p[x + 1], t, cut[x], cut[x + 1])
    BY <1>1 DEF Covers
  <2> DEFINE head == [x \in i..k |-> cut[x]]
             rest == [x \in k..n |-> cut[x]]
  <2>2. i \in i..k /\ k \in i..k /\ k \in k..n /\ n \in k..n /\ k \in i..n
    BY <1>0
  <2>8. \A x \in i..k : x \in i..n
    BY <1>0
  <2>9. \A x \in k..n : x \in i..n
    BY <1>0
  <2>10. head \in [i..k -> 0..m] /\ rest \in [k..n -> 0..m]
    BY <2>1, <2>8, <2>9
  <2>3. /\ head \in [i..k -> 0..m] /\ head[i] = j /\ head[k] = cut[k]
        /\ rest \in [k..n -> 0..m] /\ rest[k] = cut[k] /\ rest[n] = m
    BY <2>1, <2>2, <2>10
  <2>4. ASSUME NEW x \in i..(k - 1) PROVE Takes(p[x + 1], t, head[x], head[x + 1])
    <3>1. x \in i..(n - 1) /\ x \in i..k /\ x + 1 \in i..k
      BY <1>0
    <3> QED  BY <2>1, <3>1
  <2>5. ASSUME NEW x \in k..(n - 1) PROVE Takes(p[x + 1], t, rest[x], rest[x + 1])
    <3>1. x \in i..(n - 1) /\ x \in k..n /\ x + 1 \in k..n
      BY <1>0
    <3> QED  BY <2>1, <3>1
  <2> HIDE DEF head, rest
  <2>6. Piece(p, t, i, k, j, cut[k])
    BY <2>3, <2>4 DEF Piece
  <2>7. Covers(p, t, k, cut[k])
    BY <2>3, <2>5 DEF Covers
  <2> QED  BY <2>1, <2>2, <2>6, <2>7
<1>2. ASSUME NEW u \in 0..m, Piece(p, t, i, k, j, u), Covers(p, t, k, u)
      PROVE  Covers(p, t, i, j)
  <2>1. PICK head \in [i..k -> 0..m] :
            /\ head[i] = j /\ head[k] = u
            /\ \A x \in i..(k - 1) : Takes(p[x + 1], t, head[x], head[x + 1])
    BY <1>2 DEF Piece
  <2>2. PICK rest \in [k..n -> 0..m] :
            /\ rest[k] = u /\ rest[n] = m
            /\ \A x \in k..(n - 1) : Takes(p[x + 1], t, rest[x], rest[x + 1])
    BY <1>2 DEF Covers
  <2> DEFINE cut == [x \in i..n |-> IF x <= k THEN head[x] ELSE rest[x]]
  <2>3. \A x \in i..n : IF x <= k THEN x \in i..k ELSE x \in k..n
    BY <1>0
  <2>4. /\ cut \in [i..n -> 0..m]
        /\ \A x \in i..k : x \in i..n /\ cut[x] = head[x]
        /\ \A x \in k..n : x \in i..n /\ cut[x] = rest[x]
    BY <1>0, <2>1, <2>2, <2>3
  <2> HIDE DEF cut
  <2>5. cut[i] = j /\ cut[n] = m
    <3>1. i \in i..k /\ n \in k..n
      BY <1>0
    <3> QED  BY <2>1, <2>2, <2>4, <3>1
  <2>6. ASSUME NEW x \in i..(n - 1) PROVE Takes(p[x + 1], t, cut[x], cut[x + 1])
    <3>1. CASE x < k
      <4>1. x \in i..(k - 1) /\ x \in i..k /\ x + 1 \in i..k
        BY <1>0, <3>1
      <4> QED  BY <2>1, <2>4, <4>1
    <3>2. CASE ~(x < k)
      <4>1. x \in k..(n - 1) /\ x \in k..n /\ x + 1 \in k..n
        BY <1>0, <3>2
      <4> QED  BY <2>2, <2>4, <4>1
    <3> QED  BY <3>1, <3>2
  <2> QED  BY <2>4, <2>5, <2>6 DEF Covers
<1> QED  BY <1>1, <1>2

\* The cuts of a piece never go back.
LEMMA CutsInOrder ==
    ASSUME NEW m \in Nat, NEW i \in Nat, NEW n \in Nat, NEW cut \in [i..(i + n) -> 0..m],
           \A x \in i..((i + n) - 1) : cut[x] <= cut[x + 1]
    PROVE  \A x \in i..(i + n) : cut[i] <= cut[x] /\ cut[x] <= cut[i + n]
<1> DEFINE G == {d \in 0..n : cut[i] <= cut[i + d]}
           H == {d \in 0..n : cut[(i + n) - d] <= cut[i + n]}
<1>1. n \in 0..n /\ 0 \in 0..n
  OBVIOUS
<1>2. \A d \in 0..n : i + d \in i..(i + n) /\ (i + n) - d \in i..(i + n)
                      /\ cut[i + d] \in Nat /\ cut[(i + n) - d] \in Nat
  OBVIOUS
<1>3. 0..n \subseteq G
  <2>1. 0 \in G
    BY <1>1, <1>2
  <2>2. ASSUME NEW d \in 0..(n - 1), d \in G PROVE d + 1 \in G
    <3>1. d \in 0..n /\ d + 1 \in 0..n /\ i + d \in i..((i + n) - 1) /\ (i + d) + 1 = i + (d + 1)
      OBVIOUS
    <3>2. cut[i + d] <= cut[i + (d + 1)]
      BY <3>1
    <3> QED  BY <1>1, <1>2, <2>2, <3>1, <3>2
  <2> HIDE DEF G
  <2> QED  BY <2>1, <2>2, Upwards
<1>4. 0..n \subseteq H
  <2>1. 0 \in H
    BY <1>1, <1>2
  <2>2. ASSUME NEW d \in 0..(n - 1), d \in H PROVE d + 1 \in H
    <3>1. /\ d \in 0..n /\ d + 1 \in 0..n /\ (i + n) - (d + 1) \in i..((i + n) - 1)
          /\ ((i + n) - (d + 1)) + 1 = (i + n) - d
      OBVIOUS
    <3>2. cut[(i + n) - (d + 1)] <= cut[(i + n) - d]
      BY <3>1
    <3>3. cut[i + n] \in Nat /\ i + n = (i + n) - 0
      BY <1>1, <1>2
    <3> QED  BY <1>2, <2>2, <3>1, <3>2, <3>3
  <2> HIDE DEF H
  <2> QED  BY <2>1, <2>2, Upwards
<1>5. ASSUME NEW x \in i..(i + n) PROVE cut[i] <= cut[x] /\ cut[x] <= cut[i + n]
  <2>1. x - i \in 0..n /\ i + (x - i) = x /\ (i + n) - x \in 0..n /\ (i + n) - ((i + n) - x) = x
    OBVIOUS
  <2> QED  BY <1>3, <1>4, <2>1
<1> QED  BY <1>5

\* Takes, of a text and of a part of it.
LEMMA TakesInPart ==
    ASSUME NEW t \in Seq(Chars), NEW from \in 0..Len(t), NEW to \in from..Len(t), NEW token,
           NEW x \in from..to, NEW y \in from..to
    PROVE  Takes(token, t, x, y) <=> Takes(token, SubSeq(t, from + 1, to), x - from, y - from)
<1> DEFINE s == SubSeq(t, from + 1, to)
<1>1. \A z \in 1..(to - from) : s[z] = t[(from + 1) + (z - 1)]
  BY LenProperties, SubSeqProperties
<1>2. y = x + 1 => y - from \in 1..(to - from) /\ (from + 1) + ((y - from) - 1) = y
  BY LenProperties
<1>3. y = x + 1 => s[y - from] = t[y]
  BY <1>1, <1>2
<1>4. (x <= y <=> x - from <= y - from) /\ (y = x + 1 <=> y - from = (x - from) + 1)
  BY LenProperties
<1> HIDE DEF s
<1> QED  BY <1>3, <1>4 DEF Takes, s

\* Tokens take a part of a text exactly if they match it by itself.
LEMMA PieceIsMatch ==
    ASSUME NEW q \in Seq(PatTokens), NEW p \in Seq(PatTokens), NEW b \in 0..Len(p),
           b + Len(q) <= Len(p), \A m \in 1..Len(q) : p[b + m] = q[m],
           NEW t \in Seq(Chars), NEW from \in 0..Len(t), NEW to \in 0..Len(t)
    PROVE  Piece(p, t, b, b + Len(q), from, to)
             <=> from <= to /\ Matches(q, SubSeq(t, from + 1, to))
<1> DEFINE n == Len(q)
           s == SubSeq(t, from + 1, to)
<1>0. n \in Nat /\ Len(p) \in Nat /\ Len(t) \in Nat
  BY LenProperties
<1>1. from <= to => s \in Seq(Chars) /\ Len(s) = to - from
  BY <1>0, SubSeqProperties
<1>2. ASSUME Piece(p, t, b, b + n, from, to)
      PROVE  from <= to /\ Matches(q, s)
  <2>1. PICK cut \in [b..(b + n) -> 0..Len(t)] :
            /\ cut[b] = from /\ cut[b + n] = to
            /\ \A x \in b..((b + n) - 1) : Takes(p[x + 1], t, cut[x], cut[x + 1])
    BY <1>2 DEF Piece
  <2>2. ASSUME NEW x \in b..((b + n) - 1) PROVE cut[x] <= cut[x + 1]
    <3>1. Takes(p[x + 1], t, cut[x], cut[x + 1])
      BY <2>1
    <3>2. x \in b..(b + n) /\ x + 1 \in b..(b + n)
      BY <1>0
    <3>3. cut[x] \in 0..Len(t) /\ cut[x + 1] \in 0..Len(t)
      BY <2>1, <3>2
    <3>4. cut[x] \in Nat /\ cut[x + 1] \in Nat
      BY <1>0, <3>3
    <3> QED  BY <3>1, <3>4 DEF Takes
  <2>3. \A x \in b..(b + n) : from <= cut[x] /\ cut[x] <= to
    <3>1. b \in Nat /\ \A x \in b..((b + n) - 1) : cut[x] <= cut[x + 1]
      BY <1>0, <2>2
    <3>2. cut \in [b..(b + n) -> 0..Len(t)]
      BY <2>1
    <3> HIDE DEF n
    <3>3. \A x \in b..(b + n) : cut[b] <= cut[x] /\ cut[x] <= cut[b + n]
      BY <1>0, <3>1, <3>2, CutsInOrder
    <3> QED  BY <2>1, <3>3
  <2>4. from <= to
    <3>1. b \in b..(b + n)
      BY <1>0
    <3> QED  BY <2>1, <2>3, <3>1
  <2> DEFINE part == [x \in 0..n |-> cut[b + x] - from]
  <2>5. ASSUME NEW x \in 0..n PROVE b + x \in b..(b + n) /\ cut[b + x] \in from..to
    <3>1. b + x \in b..(b + n)
      BY <1>0
    <3>2. cut[b + x] \in 0..Len(t) /\ from <= cut[b + x] /\ cut[b + x] <= to
      BY <2>1, <2>3, <3>1
    <3> HIDE DEF n
    <3> QED  BY <1>0, <3>1, <3>2
  <2>6. part \in [0..n -> 0..(to - from)]
    BY <2>4, <2>5
  <2>7. part[0] = 0 /\ part[n] = to - from
    BY <1>0, <2>1
  <2>8. ASSUME NEW x \in 0..(n - 1) PROVE Takes(q[x + 1], s, part[x], part[x + 1])
    <3>1. /\ b + x \in b..((b + n) - 1) /\ x \in 0..n /\ x + 1 \in 0..n /\ x + 1 \in 1..n
          /\ (b + x) + 1 = b + (x + 1)
      BY <1>0
    <3>2. p[b + (x + 1)] = q[x + 1]
      BY <3>1
    <3>3. Takes(q[x + 1], t, cut[b + x], cut[b + (x + 1)])
      BY <2>1, <3>1, <3>2
    <3>4. cut[b + x] \in from..to /\ cut[b + (x + 1)] \in from..to /\ to \in from..Len(t)
      BY <1>0, <2>4, <2>5, <3>1
    <3>5. part[x] = cut[b + x] - from /\ part[x + 1] = cut[b + (x + 1)] - from
      BY <3>1
    <3> HIDE DEF part
    <3> QED  BY <3>3, <3>4, <3>5, TakesInPart
  <2> HIDE DEF part, s
  <2>9. Matches(q, s)
    BY <1>0, <1>1, <2>4, <2>6, <2>7, <2>8 DEF Matches, Covers
  <2> QED  BY <2>4, <2>9
<1>3. ASSUME from <= to, Matches(q, s)
      PROVE  Piece(p, t, b, b + n, from, to)
  <2> HIDE DEF s
  <2>1. PICK part \in [0..n -> 0..(to - from)] :
            /\ part[0] = 0 /\ part[n] = to - from
            /\ \A x \in 0..(n - 1) : Takes(q[x + 1], s, part[x], part[x + 1])
    BY <1>1, <1>3 DEF Matches, Covers
  <2> DEFINE cut == [x \in b..(b + n) |-> from + part[x - b]]
  <2>2. ASSUME NEW x \in b..(b + n) PROVE x - b \in 0..n /\ from + part[x - b] \in from..to
    <3>1. x - b \in 0..n
      BY <1>0
    <3>2. part[x - b] \in 0..(to - from)
      BY <2>1, <3>1
    <3> QED  BY <1>0, <1>3, <3>1, <3>2
  <2>3. cut \in [b..(b + n) -> 0..Len(t)]
    BY <1>0, <1>3, <2>2
  <2>4. cut[b] = from /\ cut[b + n] = to
    <3>1. b \in b..(b + n) /\ b - b = 0 /\ b + n \in b..(b + n) /\ (b + n) - b = n
      BY <1>0
    <3> QED  BY <2>1, <3>1
  <2>5. ASSUME NEW x \in b..((b + n) - 1) PROVE Takes(p[x + 1], t, cut[x], cut[x + 1])
    <3>1. /\ x \in b..(b + n) /\ x + 1 \in b..(b + n) /\ x - b \in 0..(n - 1)
          /\ (x + 1) - b = (x - b) + 1 /\ (x - b) + 1 \in 1..n /\ b + ((x - b) + 1) = x + 1
      BY <1>0
    <3>2. p[b + ((x - b) + 1)] = q[(x - b) + 1]
      BY <3>1
    <3>3. Takes(p[x + 1], s, part[x - b], part[(x - b) + 1])
      <4>1. Takes(q[(x - b) + 1], s, part[x - b], part[(x - b) + 1])
        BY <2>1, <3>1
      <4>2. p[x + 1] = q[(x - b) + 1]
        BY <3>1, <3>2
      <4> QED  BY <4>1, <4>2
    <3>4. /\ cut[x] \in from..to /\ cut[x + 1] \in from..to /\ to \in from..Len(t)
          /\ cut[x] = from + part[x - b] /\ cut[x + 1] = from + part[(x - b) + 1]
      BY <1>0, <1>3, <2>2, <3>1
    <3>5. part[x - b] \in Int /\ part[(x - b) + 1] \in Int
      <4>1. x - b \in 0..n /\ (x - b) + 1 \in 0..n
        BY <1>0, <3>1
      <4>2. part[x - b] \in 0..(to - from) /\ part[(x - b) + 1] \in 0..(to - from)
        BY <2>1, <4>1
      <4> QED  BY <1>0, <4>2
    <3>6. cut[x] - from = part[x - b] /\ cut[x + 1] - from = part[(x - b) + 1]
      BY <1>0, <3>4, <3>5
    <3> HIDE DEF cut
    <3> QED  BY <3>3, <3>4, <3>6, TakesInPart DEF s
  <2> HIDE DEF cut
  <2> QED  BY <2>3, <2>4, <2>5 DEF Piece
<1> QED  BY <1>2, <1>3

\* What the stars around a pattern do.
LEMMA WrappedEnds ==
    ASSUME NEW p \in Seq(Chars), NEW mode \in Modes, NEW t \in Seq(Chars),
           NEW b \in {0, 1}, b = 1 <=> StarBefore(mode),
           NEW y \in 0..Len(t)
    PROVE  /\ Matches(Wrapped(p, mode), t) <=>
                \E x \in 0..Len(t) : (StarBefore(mode) \/ x = 0) /\ Covers(Wrapped(p, mode), t, b, x)
           /\ Covers(Wrapped(p, mode), t, b + Len(tokenize_pattern(p)), y)
                <=> StarAfter(mode) \/ y = Len(t)
<1> DEFINE P == Wrapped(p, mode)
           n == Len(tokenize_pattern(p))
           a == IF StarAfter(mode) THEN 1 ELSE 0
<1>0. a \in {0, 1} /\ (a = 1 <=> StarAfter(mode))
  OBVIOUS
<1> HIDE DEF a
<1>1. /\ P \in Seq(PatTokens) /\ n \in Nat
      /\ Len(P) = b + n + a
      /\ StarBefore(mode) => P[1] = Star
      /\ StarAfter(mode) => P[(b + n) + 1] = Star
  BY <1>0, WrappedShape
<1> HIDE DEF P, n
<1>3. b \in Nat /\ Len(t) \in Nat /\ Len(P) \in Nat /\ b \in 0..Len(P) /\ b + n \in 0..Len(P)
  BY <1>0, <1>1
<1>5. Covers(P, t, b + n, y) <=> StarAfter(mode) \/ y = Len(t)
  <2>1. CASE StarAfter(mode)
    <3>1. b + n \in 0..(Len(P) - 1) /\ P[(b + n) + 1] = Star /\ Len(P) = (b + n) + 1
      BY <1>0, <1>1, <1>3, <2>1
    <3>2. Len(t) \in y..Len(t) /\ Len(t) \in 0..Len(t)
      BY <1>3
    <3>3. Covers(P, t, Len(P), Len(t))
      BY <1>1, <3>2, CoversEnd
    <3>4. Covers(P, t, b + n, y) <=> \E u \in y..Len(t) : Covers(P, t, (b + n) + 1, u)
      BY <1>1, <3>1, CoversStar
    <3> QED  BY <2>1, <3>1, <3>2, <3>3, <3>4
  <2>2. CASE ~StarAfter(mode)
    <3>1. b + n = Len(P)
      BY <1>0, <1>1, <1>3, <2>2
    <3> QED  BY <1>1, <2>2, <3>1, CoversEnd
  <2> QED  BY <2>1, <2>2
<1>6. Matches(P, t) <=>
        \E x \in 0..Len(t) : (StarBefore(mode) \/ x = 0) /\ Covers(P, t, b, x)
  <2>1. CASE StarBefore(mode)
    <3>1. 0 \in 0..(Len(P) - 1) /\ P[0 + 1] = Star /\ b = 0 + 1 /\ 0 \in 0..Len(t)
      BY <1>0, <1>1, <1>3, <2>1
    <3> QED  BY <1>1, <2>1, <3>1, CoversStar DEF Matches
  <2>2. CASE ~StarBefore(mode)
    <3>1. b = 0 /\ 0 \in 0..Len(t)
      BY <1>0, <1>3, <2>2
    <3> QED  BY <2>2, <3>1 DEF Matches
  <2> QED  BY <2>1, <2>2
<1> QED  BY <1>5, <1>6 DEF P, n

\* With the stars of its modifier a pattern matches a text if by itself it matches a part
\* of it: any part, one at the start, one at the end, or the whole.
LEMMA WrappedMatchesPart ==
    ASSUME NEW p \in Seq(Chars), NEW mode \in Modes, NEW t \in Seq(Chars)
    PROVE  Matches(Wrapped(p, mode), t) <=>
             \E from, to \in 0..Len(t) :
                /\ from <= to
                /\ mode \notin {"contains", "endswith"} => from = 0
                /\ mode \notin {"contains", "startswith"} => to = Len(t)
                /\ Matches(tokenize_pattern(p), SubSeq(t, from + 1, to))
<1> DEFINE P == Wrapped(p, mode)
           tok == tokenize_pattern(p)
           n == Len(tok)
           b == IF StarBefore(mode) THEN 1 ELSE 0
           a == IF StarAfter(mode) THEN 1 ELSE 0
<1>0. /\ b \in {0, 1} /\ (b = 1 <=> StarBefore(mode))
      /\ a \in {0, 1} /\ (a = 1 <=> StarAfter(mode))
  OBVIOUS
<1> HIDE DEF a, b
<1>1. /\ P \in Seq(PatTokens) /\ n \in Nat /\ Len(P) = b + n + a
      /\ \A m \in 1..n : P[b + m] = tok[m]
  BY <1>0, WrappedShape
<1>2. tok \in Seq(PatTokens)
  <2>1. TokensOver(Chars) = PatTokens
    BY DEF TokensOver, PatTokens
  <2> QED  BY <2>1, TokenizeType
<1>3. /\ Matches(P, t) <=>
            \E x \in 0..Len(t) : (StarBefore(mode) \/ x = 0) /\ Covers(P, t, b, x)
      /\ \A y \in 0..Len(t) : Covers(P, t, b + n, y) <=> StarAfter(mode) \/ y = Len(t)
  <2>1. Len(t) \in 0..Len(t)
    BY LenProperties
  <2> QED  BY <1>0, <2>1, WrappedEnds
<1> HIDE DEF P, tok
<1>4. b \in 0..Len(P) /\ b + n \in b..Len(P) /\ b + n <= Len(P)
  BY <1>0, <1>1
<1>5. \A x \in 0..Len(t) :
        Covers(P, t, b, x) <=> \E y \in 0..Len(t) : Piece(P, t, b, b + n, x, y) /\ Covers(P, t, b + n, y)
  BY <1>1, <1>4, CoversSplit
<1>6. \A x, y \in 0..Len(t) :
        Piece(P, t, b, b + n, x, y) <=> x <= y /\ Matches(tok, SubSeq(t, x + 1, y))
  BY <1>1, <1>2, <1>4, PieceIsMatch
<1>7. Matches(P, t) <=>
        \E x, y \in 0..Len(t) :
            /\ x <= y /\ Matches(tok, SubSeq(t, x + 1, y))
            /\ StarBefore(mode) \/ x = 0
            /\ StarAfter(mode) \/ y = Len(t)
  BY <1>3, <1>5, <1>6
<1>8. /\ StarBefore(mode) <=> mode \in {"contains", "endswith"}
      /\ StarAfter(mode) <=> mode \in {"contains", "startswith"}
  BY DEF StarBefore, StarAfter
<1> QED  BY <1>7, <1>8 DEF P, tok
=============================================================================
